---------------------------- MODULE Spec2Model ----------------------------
(***************************************************************************)
(* NBA data scraping pipeline: name normalization, Name Map construction,  *)
(* localized-name merge, salary merge, the retrying HTTP fetcher, the      *)
(* table parsers, the field cleaner and the store.                         *)
(*                                                                         *)
(* Text is modelled as a sequence of one-character tokens.  ASCII          *)
(* characters are written as themselves; a non-ASCII code point is written *)
(* as the token "U+XXXX".  Display values that are only stored and never   *)
(* inspected (localized names, salaries) are atoms.                        *)
(***************************************************************************)
EXTENDS Integers, Sequences, FiniteSets, TLC

VARIABLES
    nm_pc,          \* normalizer run: "off" | "input" | "normalized" | "renormalized"
    nm_variant,     \* which normalize_name ran: "acn" (add_chinese_names) | "dm" (data_merger)
    nm_input,       \* the cell handed to normalize_name
    nm_key,         \* normalize_name(nm_input)
    nm_rekey,       \* normalize_name(nm_key)
    sp_pc,          \* respelling run: "off" | "spelling" | "normalized"
    sp_a,           \* an identity string
    sp_b,           \* a respelling of sp_a (accents, case, punctuation)
    sp_key_a,       \* normalize_name(sp_a)
    sp_key_b,       \* normalize_name(sp_b)
    lm_pc,          \* add_chinese_names_to_nba_stats: "off" | "fetch" | "players" |
                    \*   "manual" | "match" | "done" | "raised"
    nba_df,         \* the PLAYER_NAME cells of the statistics file, in file order
    lm_season,      \* seasons of fetch_nba_china_names already requested
    lm_left,        \* entries of the current season's player list still to come
    lm_manual,      \* entries of manual_dict already considered
    name_map,       \* the Name Map: normalized key -> [cn, en]
    chinese_names,  \* the column being built, one value per row handled
    matched_count,  \* rows that found a localized name
    out_df,         \* the returned frame: rows [PLAYER_NAME, chinese_name]
    sm_pc,          \* merge_roster_with_salary: "off" | "start" | "build" | "apply" | "done"
    hupu_df,        \* primary rows [player, en], in order
    hupu_has_en,    \* the primary frame has the identity column
    espn_has_name,  \* the secondary frame has the Name column
    espn_seen,      \* secondary rows already iterated
    salary_map,     \* dict in insertion order: sequence of [key, salary]
    merged_df,      \* the returned frame: rows [player, en, salary]
    merged_columns, \* the column labels of the returned frame, in order
    rh_pc,          \* RequestHandler.get: "off" | "idle" | "attempt" | "backoff" |
                    \*   "next" | "returned" | "raised"
    rh_caller,      \* the entry point of the current call: "get" | "get_html"
    rh_calls,       \* calls made on this handler
    rh_attempt,     \* the loop variable attempt
    rh_outcomes,    \* how each network attempt of the current call ended
    rh_result,      \* what get returned: "-" (nothing yet) | "Response" | "None"
    rh_html,        \* what get_html returned: "-" | "text" | "None"
    rh_clock,       \* time.time(), in half seconds
    last_request_time,  \* self.last_request_time, in half seconds
    rh_dispatch,    \* when the latest network attempt was dispatched (-1: none yet)
    rh_end,         \* when the latest network attempt ended (-1: none yet)
    rh_before,      \* when the network attempt before the latest ended (-1: none)
    ba_pc,          \* a batch over the teams: "off" | "loop" | "report" | "done" | "raised"
    ba_kind,        \* "integrate_all_rosters" | "crawl_all_rosters"
    ba_save,        \* the save argument of integrate_all_rosters
    ba_done,        \* teams whose loop body has finished
    ba_item,        \* what the fetch and the extraction gave for the latest team
    ba_saved,       \* positions of the teams whose file was written, in order
    total_players,  \* integrate_all_rosters: total_players
    total_matched,  \* integrate_all_rosters: total_matched
    ba_error,       \* the exception that left the batch: "-" | "KeyError" | "ZeroDivisionError"
    cl_pc,          \* DataCleaner: "off" | "start" | "done"
    cl_op,          \* the method that runs
    cl_value,       \* _parse_percentage: the argument
    cl_result,      \* _parse_percentage: the return value
    cl_data,        \* clean_*: the records passed in, in order
    cl_df,          \* clean_*: the rows of the returned frame, in order
    st_fs,          \* CSVStorage: target path -> whether the file exists, and its lines
    st_calls,       \* calls made on the storage
    st_args,        \* the latest call: method, mode and data
    st_ret,         \* what the latest call returned: "-" | "filepath" | "None" | "ValueError"
    pa_pc,          \* a table parser: "off" | "start" | "done"
    pa_parser,      \* the parser class whose parse runs
    pa_table,       \* the table of the page: thead, tbody and its rows of cells
    pa_data,        \* the records returned, in order
    pa_src,         \* for each record returned, the position of the row it came from
    tv_pc,          \* ESPNTeamStatsParser.parse_all_views: "off" | "start" | "done"
    tv_pages,       \* the table of each view's page: its header labels and its rows
    tv_result       \* the merged records returned, in order

normVars == <<nm_pc, nm_variant, nm_input, nm_key, nm_rekey>>
spellVars == <<sp_pc, sp_a, sp_b, sp_key_a, sp_key_b>>
namesVars == <<lm_pc, nba_df, lm_season, lm_left, lm_manual, name_map,
               chinese_names, matched_count, out_df>>
salaryVars == <<sm_pc, hupu_df, hupu_has_en, espn_has_name, espn_seen,
                salary_map, merged_df, merged_columns>>
fetchVars == <<rh_pc, rh_caller, rh_calls, rh_attempt, rh_outcomes, rh_result, rh_html,
               rh_clock, last_request_time, rh_dispatch, rh_end, rh_before>>
batchVars == <<ba_pc, ba_kind, ba_save, ba_done, ba_item, ba_saved,
               total_players, total_matched, ba_error>>
cleanVars == <<cl_pc, cl_op, cl_value, cl_result, cl_data, cl_df>>
storeVars == <<st_fs, st_calls, st_args, st_ret>>
parseVars == <<pa_pc, pa_parser, pa_table, pa_data, pa_src>>
viewsVars == <<tv_pc, tv_pages, tv_result>>
vars == <<normVars, spellVars, namesVars, salaryVars, fetchVars, batchVars, cleanVars,
          storeVars, parseVars, viewsVars>>

\* what a step of one component leaves alone
notNorm == <<spellVars, namesVars, salaryVars, fetchVars, batchVars,
            cleanVars, storeVars, parseVars, viewsVars>>
notSpell == <<normVars, namesVars, salaryVars, fetchVars, batchVars,
            cleanVars, storeVars, parseVars, viewsVars>>
notNames == <<normVars, spellVars, salaryVars, fetchVars, batchVars,
            cleanVars, storeVars, parseVars, viewsVars>>
notSalary == <<normVars, spellVars, namesVars, fetchVars, batchVars,
            cleanVars, storeVars, parseVars, viewsVars>>
notFetch == <<normVars, spellVars, namesVars, salaryVars, batchVars,
            cleanVars, storeVars, parseVars, viewsVars>>
notBatch == <<normVars, spellVars, namesVars, salaryVars, fetchVars,
            cleanVars, storeVars, parseVars, viewsVars>>
notClean == <<normVars, spellVars, namesVars, salaryVars, fetchVars,
            batchVars, storeVars, parseVars, viewsVars>>
notStore == <<normVars, spellVars, namesVars, salaryVars, fetchVars, batchVars,
             cleanVars, parseVars, viewsVars>>
notParse == <<normVars, spellVars, namesVars, salaryVars, fetchVars, batchVars,
             cleanVars, storeVars, viewsVars>>
notViews == <<normVars, spellVars, namesVars, salaryVars, fetchVars, batchVars,
             cleanVars, storeVars, parseVars>>

(***************************************************************************)
(* Bounds of the model.                                                    *)
(***************************************************************************)
MaxLen == 3         \* longest enumerated input of the normalizers
MaxSpellLen == 3    \* longest enumerated identity string that is respelled
MaxRows == 2        \* most rows of a primary record set
MaxPlayers == 2     \* most entries of one season's player list
MaxEspnRows == 3    \* most rows of a secondary record set
MaxCalls == 2       \* most calls made on one RequestHandler
MaxTeams == 3       \* teams a batch run iterates over
MaxPctLen == 3      \* longest enumerated percentage text
MaxCleanRows == 3   \* most records passed to one clean_* call
MaxSaves == 2       \* most calls made on one CSVStorage
MaxStoreRows == 1   \* most rows of a record set that is stored
MaxCells == 4       \* most cells of one table row
MaxTableRows == 1   \* most data rows of one table
MaxStandingsRows == 3   \* most rows of one standings table
MaxViewRows == 1    \* most rows of the table of one team statistics view

(***************************************************************************)
(* Characters.                                                             *)
(***************************************************************************)
LowerLetters == <<"a","b","c","d","e","f","g","h","i","j","k","l","m",
                  "n","o","p","q","r","s","t","u","v","w","x","y","z">>
UpperLetters == <<"A","B","C","D","E","F","G","H","I","J","K","L","M",
                  "N","O","P","Q","R","S","T","U","V","W","X","Y","Z">>
Range(s) == {s[i] : i \in DOMAIN s}
AsciiLower == Range(LowerLetters)
AsciiUpper == Range(UpperLetters)
AsciiDigits == {"0","1","2","3","4","5","6","7","8","9"}
AsciiSpaces == {" ", "\t", "\n"}
AsciiPunct == {".", "'", "-", ","}
\* U+0301 combining acute accent; U+00E9 e-acute; U+00C9 E-acute;
\* U+00E1 a-acute; U+00C1 A-acute (each canonically base letter + U+0301);
\* U+00F8 / U+00D8 o with stroke (a letter with no canonical decomposition);
\* U+00A0 no-break space (white space, no canonical decomposition);
\* U+2019 right single quotation mark (punctuation).
CombiningAcute == "U+0301"
NonAscii == {"U+0301", "U+00E9", "U+00C9", "U+00E1", "U+00C1",
             "U+00F8", "U+00D8", "U+00A0", "U+2019"}

IndexOf(s, c) == CHOOSE i \in DOMAIN s : s[i] = c

\* unicodedata.normalize('NFD', c) for one character.
NFDChar(c) ==
    CASE c = "U+00E9" -> <<"e", CombiningAcute>>
      [] c = "U+00C9" -> <<"E", CombiningAcute>>
      [] c = "U+00E1" -> <<"a", CombiningAcute>>
      [] c = "U+00C1" -> <<"A", CombiningAcute>>
      [] OTHER -> <<c>>

\* str.lower() for one character (Unicode aware).
LowerChar(c) ==
    CASE c \in AsciiUpper -> LowerLetters[IndexOf(UpperLetters, c)]
      [] c = "U+00C9" -> "U+00E9"
      [] c = "U+00C1" -> "U+00E1"
      [] c = "U+00D8" -> "U+00F8"
      [] OTHER -> c

IsAscii(c) == c \notin NonAscii
\* \s of a str pattern, and the separators of str.split(): Unicode white space.
IsSpace(c) == c \in AsciiSpaces \cup {"U+00A0"}
\* \d of a str pattern.
IsDigit(c) == c \in AsciiDigits
\* the class [a-z\s]
IsKept(c) == c \in AsciiLower \/ IsSpace(c)

(***************************************************************************)
(* String helpers (Python str methods on token sequences).                 *)
(***************************************************************************)
RECURSIVE FlatMapNFD(_)
FlatMapNFD(s) == IF s = <<>> THEN <<>> ELSE NFDChar(Head(s)) \o FlatMapNFD(Tail(s))

MapLower(s) == [i \in DOMAIN s |-> LowerChar(s[i])]

RECURSIVE SplitAcc(_, _, _)
SplitAcc(s, toks, cur) ==
    IF s = <<>>
    THEN IF cur = <<>> THEN toks ELSE Append(toks, cur)
    ELSE IF IsSpace(Head(s))
         THEN SplitAcc(Tail(s), IF cur = <<>> THEN toks ELSE Append(toks, cur), <<>>)
         ELSE SplitAcc(Tail(s), toks, Append(cur, Head(s)))

\* s.split(): the maximal runs of non-white-space characters.
str_split(s) == SplitAcc(s, <<>>, <<>>)

RECURSIVE str_join(_)
\* ' '.join(toks)
str_join(toks) ==
    IF toks = <<>> THEN <<>>
    ELSE IF Len(toks) = 1 THEN toks[1]
    ELSE toks[1] \o <<" ">> \o str_join(Tail(toks))

(***************************************************************************)
(* Cells: what a DataFrame cell or JSON field can hold.                    *)
(***************************************************************************)
Str(s) == [tag |-> "str", s |-> s]
None == [tag |-> "None", s |-> <<>>]
NaN == [tag |-> "nan", s |-> <<>>]
\* bool(name) is false for None and for the empty string; NaN is truthy.
Falsy(cell) == cell.tag = "None" \/ (cell.tag = "str" /\ cell.s = <<>>)
\* str(name)
ToStr(cell) ==
    CASE cell.tag = "str" -> cell.s
      [] cell.tag = "nan" -> <<"n", "a", "n">>
      [] OTHER -> <<"N", "o", "n", "e">>

(***************************************************************************)
(* The two normalizers.                                                    *)
(***************************************************************************)
\* name.encode('ascii', 'ignore').decode('utf-8')
AsciiOnly(s) == SelectSeq(s, IsAscii)
\* re.sub(r'[^a-z\s]', '', name)
KeepLettersAndSpaces(s) == SelectSeq(s, IsKept)
\* ' '.join(name.split())
CollapseSpaces(s) == str_join(str_split(s))
\* re.sub(r'\d+', '', name)
IsNotDigit(c) == ~IsDigit(c)
StripDigits(s) == SelectSeq(s, IsNotDigit)

\* A variant that squeezes white space before removing the other characters.
normalize_name_CollapseFirst(name) ==
    IF Falsy(name) \/ name.tag = "nan" THEN <<>>
    ELSE KeepLettersAndSpaces(CollapseSpaces(MapLower(AsciiOnly(FlatMapNFD(ToStr(name))))))

\* A variant without the lower-casing step.
normalize_name_NoLower(name) ==
    IF Falsy(name) \/ name.tag = "nan" THEN <<>>
    ELSE CollapseSpaces(KeepLettersAndSpaces(AsciiOnly(FlatMapNFD(ToStr(name)))))

\* add_chinese_names.normalize_name
normalize_name(name) ==
    IF Falsy(name) \/ name.tag = "nan" THEN <<>>
    ELSE CollapseSpaces(KeepLettersAndSpaces(MapLower(AsciiOnly(FlatMapNFD(ToStr(name))))))

\* A variant without the final ' '.join(name.split()).
dm_normalize_name_NoCollapse(name) ==
    IF Falsy(name) THEN <<>>
    ELSE KeepLettersAndSpaces(MapLower(StripDigits(ToStr(name))))

\* data_merger.normalize_name
dm_normalize_name(name) ==
    IF Falsy(name) THEN <<>>
    ELSE CollapseSpaces(KeepLettersAndSpaces(MapLower(StripDigits(ToStr(name)))))

Normalizer(variant, name) ==
    IF variant = "acn" THEN normalize_name(name) ELSE dm_normalize_name(name)

(***************************************************************************)
(* Inputs of the normalizer runs.                                          *)
(***************************************************************************)
RECURSIVE SeqsUpTo(_, _)
SeqsUpTo(S, n) ==
    IF n = 0 THEN {<<>>}
    ELSE LET shorter == SeqsUpTo(S, n - 1)
         IN shorter \cup {Append(s, c) : s \in shorter, c \in S}

TestChars == {"a", "B", "1", ".", " ", "\t", "U+00E9", "U+0301", "U+00A0", "U+00F8"}

JoseAngel == <<"J","o","s","U+00E9"," ","U+00C1","n","g","e","l">>
jose_angel == <<"j","o","s","e"," ","a","n","g","e","l">>
LeBronJames == <<"L","e","B","r","o","n"," ","J","a","m","e","s">>
TerrenceShannonJr ==
    <<"2","3"," ","T","e","r","r","e","n","c","e","\t","S","h","a","n","n","o","n"," "," ","J","r",".">>

NormInputs ==
    {Str(s) : s \in SeqsUpTo(TestChars, MaxLen)}
        \cup {Str(JoseAngel), Str(LeBronJames), Str(TerrenceShannonJr), None, NaN}

(***************************************************************************)
(* Normalizer run: an input is normalized, and its key normalized again.   *)
(***************************************************************************)
NormOff ==
    /\ nm_pc = "off" /\ nm_variant = "acn" /\ nm_input = None
    /\ nm_key = <<>> /\ nm_rekey = <<>>

InitNormRun ==
    /\ nm_pc = "input"
    /\ nm_variant = "acn"
    /\ nm_input \in NormInputs
    /\ nm_key = <<>>
    /\ nm_rekey = <<>>

Normalize(variant) ==
    /\ nm_pc = "input"
    /\ nm_variant' = variant
    /\ nm_key' = Normalizer(variant, nm_input)
    /\ nm_pc' = "normalized"
    /\ UNCHANGED <<nm_input, nm_rekey>>

Renormalize ==
    /\ nm_pc = "normalized"
    /\ nm_rekey' = Normalizer(nm_variant, Str(nm_key))
    /\ nm_pc' = "renormalized"
    /\ UNCHANGED <<nm_input, nm_variant, nm_key>>

NormalizeAcn == Normalize("acn")
NormalizeDm == Normalize("dm")

(***************************************************************************)
(* Respelling run: an identity string is respelled by accent, case and     *)
(* punctuation edits, then both spellings are normalized.                  *)
(***************************************************************************)
SpellChars == {"e", "U+00C9", "b", " ", ".", "U+00F8"}
SpellPunct == {".", "U+2019"}

Letters == AsciiLower \cup AsciiUpper
    \cup {"U+00E9", "U+00C9", "U+00E1", "U+00C1", "U+00F8", "U+00D8"}

UpperChar(c) ==
    CASE c \in AsciiLower -> UpperLetters[IndexOf(LowerLetters, c)]
      [] c = "U+00E9" -> "U+00C9"
      [] c = "U+00E1" -> "U+00C1"
      [] c = "U+00F8" -> "U+00D8"
      [] OTHER -> c

SwapCase(c) == IF LowerChar(c) # c THEN LowerChar(c) ELSE UpperChar(c)

\* the same letter with the acute accent added or taken away
Accented == {"U+00E9", "U+00C9", "U+00E1", "U+00C1"}
Accentable == {"e", "E", "a", "A"}
ToggleAccent(c) ==
    CASE c = "e" -> "U+00E9" [] c = "U+00E9" -> "e"
      [] c = "E" -> "U+00C9" [] c = "U+00C9" -> "E"
      [] c = "a" -> "U+00E1" [] c = "U+00E1" -> "a"
      [] c = "A" -> "U+00C1" [] c = "U+00C1" -> "A"
      [] OTHER -> c

InsertAt(s, i, c) == SubSeq(s, 1, i) \o <<c>> \o SubSeq(s, i + 1, Len(s))
RemoveAt(s, i) == SubSeq(s, 1, i - 1) \o SubSeq(s, i + 1, Len(s))

SpellOff ==
    /\ sp_pc = "off" /\ sp_a = <<>> /\ sp_b = <<>>
    /\ sp_key_a = <<>> /\ sp_key_b = <<>>

InitSpellRun ==
    /\ sp_pc = "spelling"
    /\ \/ sp_a \in SeqsUpTo(SpellChars, MaxSpellLen) /\ sp_b = sp_a
       \/ sp_a = JoseAngel /\ sp_b = jose_angel
    /\ sp_key_a = <<>>
    /\ sp_key_b = <<>>

Respell(s) ==
    /\ sp_pc = "spelling"
    /\ Len(sp_b) <= MaxSpellLen
    /\ sp_b' = s
    /\ UNCHANGED <<sp_pc, sp_a, sp_key_a, sp_key_b>>

RespellCase ==
    \E i \in DOMAIN sp_b :
        /\ sp_b[i] \in Letters
        /\ Respell([sp_b EXCEPT ![i] = SwapCase(@)])

RespellAccent ==
    \E i \in DOMAIN sp_b :
        /\ sp_b[i] \in Accented \cup Accentable
        /\ Respell([sp_b EXCEPT ![i] = ToggleAccent(@)])

AddCombiningMark ==
    \E i \in DOMAIN sp_b :
        /\ sp_b[i] \in AsciiLower \cup AsciiUpper
        /\ Len(sp_b) < MaxSpellLen
        /\ Respell(InsertAt(sp_b, i, CombiningAcute))

DropCombiningMark ==
    \E i \in DOMAIN sp_b :
        /\ sp_b[i] = CombiningAcute
        /\ Respell(RemoveAt(sp_b, i))

AddPunctuation ==
    \E i \in 0..Len(sp_b), p \in SpellPunct :
        /\ Len(sp_b) < MaxSpellLen
        /\ Respell(InsertAt(sp_b, i, p))

DropPunctuation ==
    \E i \in DOMAIN sp_b :
        /\ sp_b[i] \in AsciiPunct \cup {"U+2019"}
        /\ Respell(RemoveAt(sp_b, i))

NormalizeBoth ==
    /\ sp_pc = "spelling"
    /\ sp_key_a' = normalize_name(Str(sp_a))
    /\ sp_key_b' = normalize_name(Str(sp_b))
    /\ sp_pc' = "normalized"
    /\ UNCHANGED <<sp_a, sp_b>>

(***************************************************************************)
(* Name Map construction and the localized-name merge                      *)
(* (add_chinese_names.py).                                                 *)
(***************************************************************************)
NumSeasons == 6

lebronjames == <<"l","e","b","r","o","n","j","a","m","e","s">>
lebron_james == <<"l","e","b","r","o","n"," ","j","a","m","e","s">>
ChrisPaul == <<"C","h","r","i","s"," ","P","a","u","l">>
chris_paul == <<"c","h","r","i","s"," ","p","a","u","l">>
KobeBryant == <<"K","o","b","e"," ","B","r","y","a","n","t">>
gg_jackson == <<"g","g"," ","j","a","c","k","s","o","n">>
g_g_jackson == <<"g",".","g","."," ","j","a","c","k","s","o","n">>

\* displayNameEn / displayName values a player list may carry
FeedNamesEn == {Str(LeBronJames), Str(lebronjames), Str(ChrisPaul), Str(<<>>), None}
FeedNamesCn == {"cn(A)", "cn(B)", ""}

\* entries of manual_dict, in the order of the literal
manual_dict ==
    << [en |-> chris_paul, cn |-> "cn(Chris Paul)"],
       [en |-> gg_jackson, cn |-> "cn(GG Jackson)"],
       [en |-> g_g_jackson, cn |-> "cn(GG Jackson)"] >>

\* PLAYER_NAME cells of a statistics file
NbaNames == {Str(LeBronJames), Str(KobeBryant), NaN}

SeqsOver(S, n) == UNION {[1..k -> S] : k \in 0..n}

\* name_map[key] = value
DictSet(map, key, value) ==
    [k \in DOMAIN map \cup {key} |-> IF k = key THEN value ELSE map[k]]

\* fetch_nba_china_names, one entry of a player list
StoreOfficial(map, name_cn, name_en) ==
    LET normalized_en == normalize_name(name_en)
    IN IF ~Falsy(name_en) /\ name_cn # "" /\ normalized_en # <<>>
       THEN DictSet(map, normalized_en, [cn |-> name_cn, en |-> name_en.s])
       ELSE map

\* A variant of the manual table loop that assigns without testing for the key.
StoreManual_Overwrite(map, entry) ==
    LET norm_en == normalize_name(Str(entry.en))
    IN IF norm_en # <<>>
       THEN DictSet(map, norm_en, [cn |-> entry.cn, en |-> entry.en])
       ELSE map

\* load_player_names_mapping, one entry of manual_dict
StoreManual(map, entry) ==
    LET norm_en == normalize_name(Str(entry.en))
    IN IF norm_en # <<>> /\ norm_en \notin DOMAIN map
       THEN DictSet(map, norm_en, [cn |-> entry.cn, en |-> entry.en])
       ELSE map

\* add_chinese_names_to_nba_stats, the value appended for one row
LookupChineseName(map, player_name) ==
    LET normalized == normalize_name(player_name)
    IN IF normalized \in DOMAIN map THEN map[normalized].cn ELSE ""

NamesOff ==
    /\ lm_pc = "off" /\ nba_df = <<>> /\ lm_season = 0 /\ lm_left = 0
    /\ lm_manual = 0 /\ name_map = <<>> /\ chinese_names = <<>>
    /\ matched_count = 0 /\ out_df = <<>>

InitNamesRun ==
    /\ lm_pc = "fetch"
    /\ nba_df \in SeqsOver(NbaNames, MaxRows)
    /\ lm_season = 0 /\ lm_left = 0 /\ lm_manual = 0
    /\ name_map = <<>>
    /\ chinese_names = <<>>
    /\ matched_count = 0
    /\ out_df = <<>>

AfterSeason == IF lm_season + 1 = NumSeasons THEN "manual" ELSE "fetch"

\* requests.get for one season: a 200 response carries a player list
FetchSeasonOK ==
    /\ lm_pc = "fetch"
    /\ \E n \in 0..MaxPlayers : lm_left' = n
    /\ lm_pc' = "players"
    /\ UNCHANGED <<nba_df, lm_season, lm_manual, name_map, chinese_names,
                   matched_count, out_df>>

\* another status code, or an exception of the request: the season is skipped
FetchSeasonFailed ==
    /\ lm_pc = "fetch"
    /\ lm_season' = lm_season + 1
    /\ lm_pc' = AfterSeason
    /\ UNCHANGED <<nba_df, lm_left, lm_manual, name_map, chinese_names,
                   matched_count, out_df>>

StorePlayer ==
    /\ lm_pc = "players"
    /\ lm_left > 0
    /\ \E name_en \in FeedNamesEn, name_cn \in FeedNamesCn :
           name_map' = StoreOfficial(name_map, name_cn, name_en)
    /\ lm_left' = lm_left - 1
    /\ UNCHANGED <<lm_pc, nba_df, lm_season, lm_manual, chinese_names,
                   matched_count, out_df>>

\* the list is exhausted, or an entry is malformed and the except clause ends the season
EndSeason ==
    /\ lm_pc = "players"
    /\ lm_left' = 0
    /\ lm_season' = lm_season + 1
    /\ lm_pc' = AfterSeason
    /\ UNCHANGED <<nba_df, lm_manual, name_map, chinese_names, matched_count, out_df>>

ManualEntry ==
    /\ lm_pc = "manual"
    /\ lm_manual < Len(manual_dict)
    /\ name_map' = StoreManual(name_map, manual_dict[lm_manual + 1])
    /\ lm_manual' = lm_manual + 1
    /\ UNCHANGED <<lm_pc, nba_df, lm_season, lm_left, chinese_names,
                   matched_count, out_df>>

\* load_player_names_mapping returns; an empty mapping returns the frame as read
MappingLoaded ==
    /\ lm_pc = "manual"
    /\ lm_manual = Len(manual_dict)
    /\ IF DOMAIN name_map = {}
       THEN /\ lm_pc' = "done"
            /\ out_df' = [i \in DOMAIN nba_df |->
                            [PLAYER_NAME |-> nba_df[i], chinese_name |-> "<absent>"]]
       ELSE /\ lm_pc' = "match"
            /\ UNCHANGED out_df
    /\ UNCHANGED <<nba_df, lm_season, lm_left, lm_manual, name_map,
                   chinese_names, matched_count>>

MatchRow ==
    /\ lm_pc = "match"
    /\ Len(chinese_names) < Len(nba_df)
    /\ LET player_name == nba_df[Len(chinese_names) + 1]
           chinese_name == LookupChineseName(name_map, player_name)
       IN /\ chinese_names' = Append(chinese_names, chinese_name)
          /\ matched_count' =
                IF normalize_name(player_name) \in DOMAIN name_map
                THEN matched_count + 1 ELSE matched_count
    /\ UNCHANGED <<lm_pc, nba_df, lm_season, lm_left, lm_manual, name_map, out_df>>

\* the column is inserted, the ratio matched_count/len(nba_df) printed, the file saved
FinishNames ==
    /\ lm_pc = "match"
    /\ Len(chinese_names) = Len(nba_df)
    /\ IF Len(nba_df) = 0
       THEN /\ lm_pc' = "raised"        \* ZeroDivisionError
            /\ UNCHANGED out_df
       ELSE /\ lm_pc' = "done"
            /\ out_df' = [i \in DOMAIN nba_df |->
                            [PLAYER_NAME |-> nba_df[i], chinese_name |-> chinese_names[i]]]
    /\ UNCHANGED <<nba_df, lm_season, lm_left, lm_manual, name_map,
                   chinese_names, matched_count>>

(***************************************************************************)
(* Salary merge (data_merger.merge_roster_with_salary).                    *)
(***************************************************************************)
JalenWilliams == <<"J","a","l","e","n"," ","W","i","l","l","i","a","m","s">>
JaylinWilliams == <<"J","a","y","l","i","n"," ","W","i","l","l","i","a","m","s">>
JWilliams8 == <<"J","."," ","W","i","l","l","i","a","m","s"," ","8">>
KenrichWilliams == <<"K","e","n","r","i","c","h"," ","W","i","l","l","i","a","m","s">>
jalen_williams == <<"j","a","l","e","n"," ","w","i","l","l","i","a","m","s">>
jaylin_williams == <<"j","a","y","l","i","n"," ","w","i","l","l","i","a","m","s">>

\* rows of a primary roster file
HupuRows ==
    { [player |-> "p1", en |-> Str(JalenWilliams)],
      [player |-> "p2", en |-> Str(JWilliams8)],
      [player |-> "p3", en |-> Str(KenrichWilliams)],
      [player |-> "p4", en |-> Str(<<>>)] }

\* Name and Salary cells of a secondary roster
EspnNames == {Str(JaylinWilliams), Str(JalenWilliams), Str(<<>>)}
EspnSalaries == {"$1", "$2", ""}

KeyIndex(map, key) == {i \in DOMAIN map : map[i].key = key}

\* salary_map[match_name] = salary: a new key goes last, a known key keeps its place
OrderedDictSet(map, key, salary) ==
    IF KeyIndex(map, key) # {}
    THEN [i \in DOMAIN map |-> IF map[i].key = key
                               THEN [key |-> key, salary |-> salary] ELSE map[i]]
    ELSE Append(map, [key |-> key, salary |-> salary])

\* norm_name.split()[-1] if norm_name.split() else ""
LastToken(name) ==
    LET toks == str_split(name) IN IF toks # <<>> THEN toks[Len(toks)] ELSE <<>>

\* norm_name.split()[0][0] if norm_name.split() else ""
FirstInitial(name) ==
    LET toks == str_split(name) IN IF toks # <<>> THEN toks[1][1] ELSE ""

\* the test of the partial-match loop for one entry of salary_map
PartialMatch(norm_name, espn_name) ==
    LET hupu_last == LastToken(norm_name)
        espn_last == LastToken(espn_name)
    IN /\ hupu_last # <<>> /\ espn_last # <<>> /\ hupu_last = espn_last
       /\ FirstInitial(norm_name) = FirstInitial(espn_name)

\* A variant in which a later entry replaces an earlier hit.
RECURSIVE ScanSalaryMap_LastWins(_, _, _)
ScanSalaryMap_LastWins(map, i, norm_name) ==
    IF i > Len(map) THEN ""
    ELSE LET later == ScanSalaryMap_LastWins(map, i + 1, norm_name)
         IN IF later # "" THEN later
            ELSE IF PartialMatch(norm_name, map[i].key) THEN map[i].salary ELSE ""

\* for espn_name, salary in salary_map.items(): ... return salary; return ""
RECURSIVE ScanSalaryMap(_, _, _)
ScanSalaryMap(map, i, norm_name) ==
    IF i > Len(map) THEN ""
    ELSE IF PartialMatch(norm_name, map[i].key) THEN map[i].salary
    ELSE ScanSalaryMap(map, i + 1, norm_name)

\* A variant that tries the partial match before the exact lookup.
find_salary_PartialFirst(map, english_name) ==
    LET norm_name == dm_normalize_name(english_name)
        partial == ScanSalaryMap(map, 1, norm_name)
    IN IF partial # "" THEN partial
       ELSE IF KeyIndex(map, norm_name) # {}
       THEN map[CHOOSE i \in KeyIndex(map, norm_name) : TRUE].salary
       ELSE ""

\* A variant that drops a row without a salary.
RECURSIVE ApplyFindSalary_DropUnmatched(_, _)
ApplyFindSalary_DropUnmatched(map, rows) ==
    IF rows = <<>> THEN <<>>
    ELSE LET english_name == Head(rows).en
             norm_name == dm_normalize_name(english_name)
             salary ==
                IF KeyIndex(map, norm_name) # {}
                THEN map[CHOOSE i \in KeyIndex(map, norm_name) : TRUE].salary
                ELSE ScanSalaryMap(map, 1, norm_name)
             rest == ApplyFindSalary_DropUnmatched(map, Tail(rows))
         IN IF salary = "" THEN rest
            ELSE <<[player |-> Head(rows).player, en |-> english_name,
                    salary |-> salary]>> \o rest

\* find_salary
find_salary(map, english_name) ==
    LET norm_name == dm_normalize_name(english_name)
    IN IF KeyIndex(map, norm_name) # {}
       THEN map[CHOOSE i \in KeyIndex(map, norm_name) : TRUE].salary
       ELSE ScanSalaryMap(map, 1, norm_name)

\* hupu_df["薪资"] = hupu_df["英文名"].apply(find_salary)
ApplyFindSalary(map, rows) ==
    [i \in DOMAIN rows |->
        [player |-> rows[i].player, en |-> rows[i].en,
         salary |-> find_salary(map, rows[i].en)]]

\* the frame as it is returned when a column is missing: no salary column
WithoutSalary(rows) ==
    [i \in DOMAIN rows |->
        [player |-> rows[i].player, en |-> rows[i].en, salary |-> "<absent>"]]

\* the columns of the primary frame as it is passed in: player is 球员, en is
\* 英文名; salary is 薪资
HupuColumns(has_en) == IF has_en THEN <<"player", "en">> ELSE <<"player">>

\* the columns of the frame an early return hands back: the first return comes
\* before any column is added, the second after hupu_df["_match_name"] was
\* assigned
EarlyReturnColumns(has_en) ==
    IF has_en THEN Append(HupuColumns(has_en), "_match_name") ELSE HupuColumns(has_en)

\* hupu_df.drop(columns=["_match_name"], errors="ignore")
DropMatchName(columns) ==
    LET NotMatchName(c) == c # "_match_name" IN SelectSeq(columns, NotMatchName)

\* the columns of the frame the last return hands back: _match_name and 薪资
\* are added, then _match_name is dropped
FullReturnColumns(has_en) ==
    DropMatchName(HupuColumns(has_en) \o <<"_match_name", "salary">>)

SalaryOff ==
    /\ sm_pc = "off" /\ hupu_df = <<>> /\ hupu_has_en = TRUE
    /\ espn_has_name = TRUE /\ espn_seen = 0 /\ salary_map = <<>>
    /\ merged_df = <<>> /\ merged_columns = <<>>

InitSalaryRun ==
    /\ sm_pc = "start"
    /\ hupu_df \in SeqsOver(HupuRows, MaxRows)
    /\ hupu_has_en \in BOOLEAN
    /\ espn_has_name \in BOOLEAN
    /\ espn_seen = 0
    /\ salary_map = <<>>
    /\ merged_df = <<>>
    /\ merged_columns = <<>>

\* the two column checks; either early return hands back the primary frame
CheckColumns ==
    /\ sm_pc = "start"
    /\ IF hupu_has_en /\ espn_has_name
       THEN sm_pc' = "build" /\ UNCHANGED <<merged_df, merged_columns>>
       ELSE /\ sm_pc' = "done" /\ merged_df' = WithoutSalary(hupu_df)
            /\ merged_columns' = EarlyReturnColumns(hupu_has_en)
    /\ UNCHANGED <<hupu_df, hupu_has_en, espn_has_name, espn_seen, salary_map>>

\* one row of espn_df.iterrows()
BuildSalaryMap ==
    /\ sm_pc = "build"
    /\ espn_seen < MaxEspnRows
    /\ \E name \in EspnNames, salary \in EspnSalaries :
          LET match_name == dm_normalize_name(name)
          IN salary_map' =
                IF match_name # <<>> /\ salary # ""
                THEN OrderedDictSet(salary_map, match_name, salary)
                ELSE salary_map
    /\ espn_seen' = espn_seen + 1
    /\ UNCHANGED <<sm_pc, hupu_df, hupu_has_en, espn_has_name, merged_df,
                   merged_columns>>

\* the secondary frame has no more rows
SalaryMapBuilt ==
    /\ sm_pc = "build"
    /\ sm_pc' = "apply"
    /\ UNCHANGED <<hupu_df, hupu_has_en, espn_has_name, espn_seen, salary_map,
                   merged_df, merged_columns>>

\* the salary column is filled, the helper column dropped, the frame returned
MergeSalaries ==
    /\ sm_pc = "apply"
    /\ merged_df' = ApplyFindSalary(salary_map, hupu_df)
    /\ merged_columns' = FullReturnColumns(hupu_has_en)
    /\ sm_pc' = "done"
    /\ UNCHANGED <<hupu_df, hupu_has_en, espn_has_name, espn_seen, salary_map>>

(***************************************************************************)
(* The fetcher (nba_crawler/request_handler.py).                           *)
(***************************************************************************)
MAX_RETRIES == 3
\* 1.5 s, in half seconds
REQUEST_DELAY == 3

\* how one session.get can end: a response with a status code, or an exception
\* of the request library
Outcomes == {"200", "204", "500", "Timeout", "ConnectionError", "RequestException"}
StatusCodes == {"200", "204", "500"}

\* A variant without the clause for the library's base exception.
Caught_TimeoutAndConnectionOnly(outcome) ==
    outcome \in {"Timeout", "ConnectionError"}

\* the except clauses of get
Caught(outcome) == outcome \in {"Timeout", "ConnectionError", "RequestException"}

\* response.status_code == 200
IsSuccess(outcome) == outcome = "200"

\* A variant whose loop runs one more time.
InRange_OneMore(attempt) == attempt <= MAX_RETRIES

\* attempt in range(MAX_RETRIES)
InRange(attempt) == attempt < MAX_RETRIES

\* if attempt < MAX_RETRIES - 1: time.sleep(...)
WaitsBeforeRetry(attempt) == attempt < MAX_RETRIES - 1

\* how long a caller pauses between two calls: not at all, or a full delay
IdleTimes == {0, REQUEST_DELAY}

\* how long a network attempt takes, in half seconds: it ends at once, or later
Latencies == {0, 1}

\* _wait_for_delay: how long it sleeps
DelaySleep(now, last) ==
    IF now - last < REQUEST_DELAY THEN REQUEST_DELAY - (now - last) ELSE 0

\* A variant that waits 2 seconds before every retry.
wait_time_Constant(attempt) == 2 * 2

\* wait_time = (attempt + 1) * 2 seconds, in half seconds
wait_time(attempt) == (attempt + 1) * 2 * 2

\* get_html: the text of a truthy response, else None
HtmlOf(result) == IF result = "Response" THEN "text" ELSE "None"

FetchOff ==
    /\ rh_pc = "off" /\ rh_caller = "get" /\ rh_calls = 0 /\ rh_attempt = 0
    /\ rh_outcomes = <<>> /\ rh_result = "-" /\ rh_html = "-"
    /\ rh_clock = 0 /\ last_request_time = 0
    /\ rh_dispatch = -1 /\ rh_end = -1 /\ rh_before = -1

\* __init__: last_request_time = 0.  The epoch clock is far past REQUEST_DELAY; it
\* starts at the least value that makes the first elapsed time reach REQUEST_DELAY.
InitFetchRun ==
    /\ rh_pc = "idle" /\ rh_caller = "get" /\ rh_calls = 0 /\ rh_attempt = 0
    /\ rh_outcomes = <<>> /\ rh_result = "-" /\ rh_html = "-"
    /\ rh_clock = REQUEST_DELAY /\ last_request_time = 0
    /\ rh_dispatch = -1 /\ rh_end = -1 /\ rh_before = -1

\* a caller enters get, directly or through get_html, some time after the
\* previous call returned; get first runs _wait_for_delay
Get ==
    /\ rh_pc \in {"idle", "returned"}
    /\ rh_calls < MaxCalls
    /\ rh_calls' = rh_calls + 1
    /\ \E idle \in IdleTimes :
          rh_clock' = rh_clock + idle
                      + DelaySleep(rh_clock + idle, last_request_time)
    /\ UNCHANGED <<last_request_time, rh_dispatch, rh_end, rh_before>>
    /\ \E caller \in {"get", "get_html"} : rh_caller' = caller
    /\ rh_attempt' = 0
    /\ rh_outcomes' = <<>>
    /\ rh_result' = "-"
    /\ rh_html' = "-"
    /\ rh_pc' = IF InRange(0) THEN "attempt" ELSE "next"

\* one pass of the try block: session.get, the status check, the except clauses
Attempt ==
    /\ rh_pc = "attempt"
    /\ \E outcome \in Outcomes, latency \in Latencies :
          /\ rh_outcomes' = Append(rh_outcomes, outcome)
          /\ rh_dispatch' = rh_clock
          /\ rh_before' = rh_end
          /\ rh_end' = rh_clock + latency
          /\ rh_clock' = rh_clock + latency
          /\ last_request_time' = IF outcome \in StatusCodes
                                  THEN rh_clock + latency ELSE last_request_time
          /\ IF outcome \in StatusCodes /\ IsSuccess(outcome)
             THEN /\ rh_result' = "Response"
                  /\ rh_html' = IF rh_caller = "get_html" THEN HtmlOf("Response") ELSE "-"
                  /\ rh_pc' = "returned"
             ELSE /\ UNCHANGED <<rh_result, rh_html>>
                  /\ rh_pc' = IF outcome \notin StatusCodes /\ ~Caught(outcome)
                              THEN "raised"
                              ELSE IF WaitsBeforeRetry(rh_attempt) THEN "backoff" ELSE "next"
    /\ UNCHANGED <<rh_caller, rh_calls, rh_attempt>>

\* time.sleep((attempt + 1) * 2)
Backoff ==
    /\ rh_pc = "backoff"
    /\ rh_pc' = "next"
    /\ rh_clock' = rh_clock + wait_time(rh_attempt)
    /\ UNCHANGED <<rh_caller, rh_calls, rh_attempt, rh_outcomes, rh_result, rh_html,
                   last_request_time, rh_dispatch, rh_end, rh_before>>

\* the for statement takes its next value, or the loop ends and get returns None
NextIteration ==
    /\ rh_pc = "next"
    /\ IF InRange(rh_attempt + 1)
       THEN /\ rh_attempt' = rh_attempt + 1
            /\ rh_pc' = "attempt"
            /\ UNCHANGED <<rh_result, rh_html>>
       ELSE /\ rh_result' = "None"
            /\ rh_html' = IF rh_caller = "get_html" THEN HtmlOf("None") ELSE "-"
            /\ rh_pc' = "returned"
            /\ UNCHANGED rh_attempt
    /\ UNCHANGED <<rh_caller, rh_calls, rh_outcomes,
                   rh_clock, last_request_time, rh_dispatch, rh_end, rh_before>>

(***************************************************************************)
(* Batch runs over the teams (data_merger.integrate_all_rosters,           *)
(* nba_crawler/main.py NBASpider.crawl_all_rosters).                       *)
(***************************************************************************)
\* What one team's fetch and extraction can give.  file: the primary roster file
\* exists; has_en: it has the identity column; html: what get_page returned;
\* data: what the parser returned; players: rows of the primary record set.
\* ESPNRosterParser only emits records that carry Name.
BatchItems ==
    [file : BOOLEAN, has_en : BOOLEAN, html : {"None", "text"},
     data : {"[]", "rows"}, players : 1..MaxRows]

NoItem == [file |-> FALSE, has_en |-> FALSE, html |-> "None", data |-> "[]", players |-> 1]

\* ESPNSpider.crawl_roster: [] for a missing page or an empty parse
espn_crawl_roster(item) ==
    IF item.html = "None" THEN "[]"
    ELSE IF item.data = "[]" THEN "[]"
    ELSE "rows"

\* merge_roster_with_salary: whether the returned frame has the salary column
HasSalaryColumn(hupu_has_identity, espn_has_identity) ==
    hupu_has_identity /\ espn_has_identity

\* integrate_team_roster for a team found in HUPU_TO_ESPN: what it returns, and
\* whether the returned frame has the salary column
integrate_team_roster(item) ==
    IF ~item.file THEN [ret |-> "None", salary |-> FALSE]
    ELSE IF espn_crawl_roster(item) = "[]" THEN [ret |-> "hupu_df", salary |-> FALSE]
    ELSE IF HasSalaryColumn(item.has_en, TRUE)
         THEN [ret |-> "merged_df", salary |-> TRUE]
         ELSE [ret |-> "KeyError", salary |-> FALSE]

\* NBASpider.crawl_roster: whether the team's roster is cleaned and saved
crawl_roster_saves(item) == item.html # "None" /\ item.data # "[]"

BatchOff ==
    /\ ba_pc = "off" /\ ba_kind = "integrate_all_rosters" /\ ba_save = TRUE
    /\ ba_done = 0 /\ ba_item = NoItem /\ ba_saved = <<>>
    /\ total_players = 0 /\ total_matched = 0 /\ ba_error = "-"

InitBatchRun ==
    /\ ba_pc = "loop"
    /\ \/ ba_kind = "integrate_all_rosters" /\ ba_save \in BOOLEAN
       \/ ba_kind = "crawl_all_rosters" /\ ba_save = TRUE
    /\ ba_done = 0 /\ ba_item = NoItem /\ ba_saved = <<>>
    /\ total_players = 0 /\ total_matched = 0 /\ ba_error = "-"

\* one pass of the loop of integrate_all_rosters
IntegrateTeam ==
    /\ ba_pc = "loop" /\ ba_kind = "integrate_all_rosters"
    /\ ba_done < MaxTeams
    /\ \E item \in BatchItems, matched \in 0..MaxRows :
          /\ matched <= item.players
          /\ ba_item' = item
          /\ LET r == integrate_team_roster(item) IN
             CASE r.ret = "KeyError" ->
                    /\ ba_pc' = "raised" /\ ba_error' = "KeyError"
                    /\ UNCHANGED <<ba_done, ba_saved, total_players, total_matched>>
               [] r.ret = "None" ->
                    /\ ba_done' = ba_done + 1
                    /\ UNCHANGED <<ba_pc, ba_error, ba_saved, total_players, total_matched>>
               [] r.ret \in {"hupu_df", "merged_df"} /\ ~r.salary ->
                    /\ total_players' = total_players + item.players
                    /\ ba_pc' = "raised" /\ ba_error' = "KeyError"
                    /\ UNCHANGED <<ba_done, ba_saved, total_matched>>
               [] r.ret \in {"hupu_df", "merged_df"} /\ r.salary ->
                    /\ total_players' = total_players + item.players
                    /\ total_matched' = total_matched + matched
                    /\ ba_saved' = IF ba_save THEN Append(ba_saved, ba_done + 1)
                                   ELSE ba_saved
                    /\ ba_done' = ba_done + 1
                    /\ UNCHANGED <<ba_pc, ba_error>>
    /\ UNCHANGED <<ba_kind, ba_save>>

\* the loop of integrate_all_rosters is exhausted
IntegrateLoopEnd ==
    /\ ba_pc = "loop" /\ ba_kind = "integrate_all_rosters"
    /\ ba_done = MaxTeams
    /\ ba_pc' = "report"
    /\ UNCHANGED <<ba_kind, ba_save, ba_done, ba_item, ba_saved,
                   total_players, total_matched, ba_error>>

\* the completion report of integrate_all_rosters, with its percentage
IntegrateReport ==
    /\ ba_pc = "report"
    /\ IF total_players = 0
       THEN ba_pc' = "raised" /\ ba_error' = "ZeroDivisionError"
       ELSE ba_pc' = "done" /\ UNCHANGED ba_error
    /\ UNCHANGED <<ba_kind, ba_save, ba_done, ba_item, ba_saved,
                   total_players, total_matched>>

\* one pass of the loop of crawl_all_rosters: crawl_roster for the next team
CrawlTeam ==
    /\ ba_pc = "loop" /\ ba_kind = "crawl_all_rosters"
    /\ ba_done < MaxTeams
    /\ \E item \in BatchItems :
          /\ item.file /\ item.has_en
          /\ ba_item' = item
          /\ ba_saved' = IF crawl_roster_saves(item) THEN Append(ba_saved, ba_done + 1)
                         ELSE ba_saved
    /\ ba_done' = ba_done + 1
    /\ UNCHANGED <<ba_pc, ba_kind, ba_save, total_players, total_matched, ba_error>>

\* the loop of crawl_all_rosters is exhausted and the method returns
CrawlLoopEnd ==
    /\ ba_pc = "loop" /\ ba_kind = "crawl_all_rosters"
    /\ ba_done = MaxTeams
    /\ ba_pc' = "done"
    /\ UNCHANGED <<ba_kind, ba_save, ba_done, ba_item, ba_saved,
                   total_players, total_matched, ba_error>>

(***************************************************************************)
(* The field cleaner (data_cleaner.py).  A float is a decimal n / 10^d,    *)
(* kept canonical (no trailing zero decimals), so equal values are equal   *)
(* records; binary rounding of the product is not modelled.                *)
(***************************************************************************)
RECURSIVE Pow10(_)
Pow10(d) == IF d = 0 THEN 1 ELSE 10 * Pow10(d - 1)

RECURSIVE Canon(_, _)
Canon(n, d) ==
    IF d > 0 /\ n % 10 = 0 THEN Canon(n \div 10, d - 1)
    ELSE [tag |-> "float", n |-> n, d |-> d]

ValueError == [tag |-> "ValueError", n |-> 0, d |-> 0]

RECURSIVE LStrip(_)
LStrip(s) == IF s # <<>> /\ IsSpace(Head(s)) THEN LStrip(Tail(s)) ELSE s

RECURSIVE RStrip(_)
RStrip(s) ==
    IF s # <<>> /\ IsSpace(s[Len(s)]) THEN RStrip(SubSeq(s, 1, Len(s) - 1)) ELSE s

\* s.strip()
str_strip(s) == RStrip(LStrip(s))

DigitValue(c) ==
    CASE c = "0" -> 0 [] c = "1" -> 1 [] c = "2" -> 2 [] c = "3" -> 3 [] c = "4" -> 4
      [] c = "5" -> 5 [] c = "6" -> 6 [] c = "7" -> 7 [] c = "8" -> 8 [] c = "9" -> 9

RECURSIVE NatOf(_)
NatOf(digits) ==
    IF digits = <<>> THEN 0
    ELSE 10 * NatOf(SubSeq(digits, 1, Len(digits) - 1)) + DigitValue(digits[Len(digits)])

IsDot(c) == c = "."
IsPercent(c) == c = "%"
NotPercent(c) == c # "%"

\* float(text) for text made of digits, sign, point, white space and other
\* characters: surrounding white space is ignored, then an optional sign, then
\* digits with at most one point and at least one digit
ParseFloat(text) ==
    LET t == str_strip(text)
        signed == t # <<>> /\ t[1] \in {"-", "+"}
        body == IF signed THEN Tail(t) ELSE t
        digits == SelectSeq(body, IsDigit)
        dots == SelectSeq(body, IsDot)
        point == IF dots = <<>> THEN Len(body) ELSE IndexOf(body, ".")
        magnitude == NatOf(digits)
    IN  IF digits # <<>> /\ Len(dots) <= 1 /\ Len(digits) + Len(dots) = Len(body)
        THEN Canon(IF signed /\ t[1] = "-" THEN 0 - magnitude ELSE magnitude,
                   IF dots = <<>> THEN 0 ELSE Len(body) - point)
        ELSE ValueError

\* num <= 1
AtMostOne(num) == num.n <= Pow10(num.d)
\* num * 100
Times100(num) == Canon(num.n * 100, num.d)

\* DataCleaner._parse_percentage
parse_percentage(value) ==
    IF value.tag \in {"None", "nan"} THEN None
    ELSE LET v == str_strip(value.s) IN
         IF SelectSeq(v, IsPercent) # <<>>
         THEN LET num == ParseFloat(SelectSeq(v, NotPercent)) IN
              IF num = ValueError THEN None ELSE num
         ELSE LET num == ParseFloat(v) IN
              IF num = ValueError THEN None
              ELSE IF AtMostOne(num) THEN Times100(num) ELSE num

\* pd.to_numeric(column, errors="coerce") for one cell
to_numeric(cell) ==
    IF cell.tag # "str" THEN NaN
    ELSE LET num == ParseFloat(cell.s) IN IF num = ValueError THEN NaN ELSE num

\* the missing value of the nullable integer type
NA == [tag |-> "NA", s |-> <<>>]

\* a float that equals an integer
IsWhole(num) == num.tag = "float" /\ num.d = 0

\* column.astype("Int64") raises TypeError (cannot safely cast non-equivalent
\* float64 to int64) when a value of the float column is not a whole number
astype_Int64_raises(column) ==
    \E i \in DOMAIN column : column[i].tag = "float" /\ ~IsWhole(column[i])

\* column.astype("Int64") for one cell of a column that can be cast
astype_Int64(num) ==
    IF num.tag = "float" THEN [tag |-> "Int64", n |-> num.n, d |-> 0] ELSE NA

\* drop_duplicates compares missing values as equal
Missing(cell) == cell.tag \in {"None", "nan", "NA"}
SameCell(a, b) == (Missing(a) /\ Missing(b)) \/ a = b

\* Records of a statistics table: name is the text column (球员 or 球队), score the
\* column 得分, pct the percentage column (命中率 or 胜率), rank the column 排名.
SameStatsRow(r, q) ==
    /\ SameCell(r.name, q.name) /\ SameCell(r.score, q.score)
    /\ SameCell(r.pct, q.pct) /\ SameCell(r.rank, q.rank)

\* Records of a roster: player is 球员, en is 英文名, number is 号码.
SameIdentity(r, q) == SameCell(r.player, q.player)

AllMissingStats(r) ==
    Missing(r.name) /\ Missing(r.score) /\ Missing(r.pct) /\ Missing(r.rank)
SomeStats(r) == ~AllMissingStats(r)
SomeRoster(r) == ~(Missing(r.player) /\ Missing(r.en) /\ Missing(r.number))

\* A variant of drop_duplicates that keeps the last of equal rows.
RECURSIVE DropDuplicates_KeepLast(_)
DropDuplicates_KeepLast(rows) ==
    IF rows = <<>> THEN <<>>
    ELSE IF \E j \in 2..Len(rows) : SameStatsRow(rows[j], rows[1])
         THEN DropDuplicates_KeepLast(Tail(rows))
         ELSE <<rows[1]>> \o DropDuplicates_KeepLast(Tail(rows))

\* df.drop_duplicates(): a row is dropped when an equal row precedes it
RECURSIVE DropDuplicates(_)
DropDuplicates(rows) ==
    IF rows = <<>> THEN <<>>
    ELSE LET front == SubSeq(rows, 1, Len(rows) - 1)
             last == rows[Len(rows)]
         IN  IF \E j \in DOMAIN front : SameStatsRow(front[j], last)
             THEN DropDuplicates(front)
             ELSE Append(DropDuplicates(front), last)

\* A variant of the identity de-duplication that keeps the last row of an identity.
RECURSIVE DropDuplicateIdentities_KeepLast(_)
DropDuplicateIdentities_KeepLast(rows) ==
    IF rows = <<>> THEN <<>>
    ELSE IF \E j \in 2..Len(rows) : SameIdentity(rows[j], rows[1])
         THEN DropDuplicateIdentities_KeepLast(Tail(rows))
         ELSE <<rows[1]>> \o DropDuplicateIdentities_KeepLast(Tail(rows))

\* df.drop_duplicates(subset=["球员"])
RECURSIVE DropDuplicateIdentities(_)
DropDuplicateIdentities(rows) ==
    IF rows = <<>> THEN <<>>
    ELSE LET front == SubSeq(rows, 1, Len(rows) - 1)
             last == rows[Len(rows)]
         IN  IF \E j \in DOMAIN front : SameIdentity(front[j], last)
             THEN DropDuplicateIdentities(front)
             ELSE Append(DropDuplicateIdentities(front), last)

\* column.apply(self._parse_percentage) for one cell
PercentageCell(cell) == parse_percentage(cell)

\* column.str.strip() for one cell
StripCell(cell) == IF cell.tag = "str" THEN Str(str_strip(cell.s)) ELSE cell

\* the conversions of clean_player_stats (category "pts"), clean_team_stats and
\* clean_standings on one row
ConvertStatsRow(op, r) ==
    [name |-> r.name,
     score |-> IF op \in {"clean_player_stats", "clean_team_stats"}
               THEN to_numeric(r.score) ELSE r.score,
     pct |-> IF op \in {"clean_player_stats", "clean_standings"}
             THEN PercentageCell(r.pct) ELSE r.pct,
     rank |-> astype_Int64(to_numeric(r.rank))]

ConvertStats(op, rows) == [i \in DOMAIN rows |-> ConvertStatsRow(op, rows[i])]

\* the text cleaning of clean_roster on one row
StripRosterRow(r) == [player |-> StripCell(r.player), en |-> StripCell(r.en),
                      number |-> r.number]

\* the column 排名 after pd.to_numeric(df["排名"], errors="coerce")
RankColumn(data) ==
    LET df == SelectSeq(data, SomeStats) IN [i \in DOMAIN df |-> to_numeric(df[i].rank)]

\* clean_player_stats, clean_team_stats, clean_standings leave with TypeError
clean_stats_raises(data) == data # <<>> /\ astype_Int64_raises(RankColumn(data))

\* clean_player_stats, clean_team_stats, clean_standings when they return
clean_stats(op, data) ==
    IF data = <<>> THEN <<>>
    ELSE DropDuplicates(ConvertStats(op, SelectSeq(data, SomeStats)))

\* clean_roster
clean_roster(data) ==
    IF data = <<>> THEN <<>>
    ELSE LET df == SelectSeq(data, SomeRoster) IN
         DropDuplicateIdentities([i \in DOMAIN df |-> StripRosterRow(df[i])])

\* inputs
PctChars == {"0", "1", "5", ".", "%", "-", " "}
PctTexts ==
    SeqsOver(PctChars, MaxPctLen)
        \cup {<<"4","5",".","6","%">>, <<"0",".","4","5","6">>, <<"1",".","5">>,
              <<"-","1",".","5">>}
PctValues == {Str(t) : t \in PctTexts} \cup {None, NaN}

RankTexts == {<<"2",".","0">>, <<"1",".","5">>, <<"-">>}
StatsRows ==
    [name : {Str(<<"a">>), Str(<<"b">>)},
     score : {Str(<<"1">>), Str(<<"1",".","0">>)},
     pct : {Str(<<"5","0","%">>), Str(<<"0",".","5">>)},
     rank : {Str(<<"1">>)}]
        \cup [name : {Str(<<"a">>)}, score : {Str(<<"1">>)}, pct : {Str(<<"5","0","%">>)},
              rank : {Str(t) : t \in RankTexts}]
        \cup {[name |-> None, score |-> None, pct |-> None, rank |-> None]}

RosterRows ==
    [player : {Str(<<"a">>), Str(<<" ","a">>), Str(<<"b">>)},
     en : {Str(<<"x">>), Str(<<" ","x">>)},
     number : {Str(<<"1">>), Str(<<"2">>)}]

StatsOps == {"clean_player_stats", "clean_team_stats", "clean_standings"}

CleanOff ==
    /\ cl_pc = "off" /\ cl_op = "_parse_percentage" /\ cl_value = None
    /\ cl_result = None /\ cl_data = <<>> /\ cl_df = <<>>

InitCleanRun ==
    /\ cl_pc = "start" /\ cl_result = None /\ cl_df = <<>>
    /\ \/ cl_op = "_parse_percentage" /\ cl_value \in PctValues /\ cl_data = <<>>
       \/ cl_op \in StatsOps /\ cl_value = None
            /\ cl_data \in SeqsOver(StatsRows, MaxCleanRows)
       \/ cl_op = "clean_roster" /\ cl_value = None
            /\ cl_data \in SeqsOver(RosterRows, MaxCleanRows)

ParsePercentage ==
    /\ cl_pc = "start" /\ cl_op = "_parse_percentage"
    /\ cl_result' = parse_percentage(cl_value)
    /\ cl_pc' = "done"
    /\ UNCHANGED <<cl_op, cl_value, cl_data, cl_df>>

CleanPlayerStats ==
    /\ cl_pc = "start" /\ cl_op = "clean_player_stats"
    /\ IF clean_stats_raises(cl_data)
       THEN cl_pc' = "TypeError" /\ cl_df' = cl_df
       ELSE cl_pc' = "done" /\ cl_df' = clean_stats(cl_op, cl_data)
    /\ UNCHANGED <<cl_op, cl_value, cl_result, cl_data>>

CleanTeamStats ==
    /\ cl_pc = "start" /\ cl_op = "clean_team_stats"
    /\ IF clean_stats_raises(cl_data)
       THEN cl_pc' = "TypeError" /\ cl_df' = cl_df
       ELSE cl_pc' = "done" /\ cl_df' = clean_stats(cl_op, cl_data)
    /\ UNCHANGED <<cl_op, cl_value, cl_result, cl_data>>

CleanStandings ==
    /\ cl_pc = "start" /\ cl_op = "clean_standings"
    /\ IF clean_stats_raises(cl_data)
       THEN cl_pc' = "TypeError" /\ cl_df' = cl_df
       ELSE cl_pc' = "done" /\ cl_df' = clean_stats(cl_op, cl_data)
    /\ UNCHANGED <<cl_op, cl_value, cl_result, cl_data>>

CleanRoster ==
    /\ cl_pc = "start" /\ cl_op = "clean_roster"
    /\ cl_df' = clean_roster(cl_data)
    /\ cl_pc' = "done"
    /\ UNCHANGED <<cl_op, cl_value, cl_result, cl_data>>

(***************************************************************************)
(* The store (storage.py).  A record set is its column labels in order and *)
(* its number of rows; a value is written as the label of its own field,   *)
(* so a line of a file shows which field each position holds.              *)
(***************************************************************************)
ColumnOrders == {<<>>, <<"a">>, <<"a", "b">>, <<"b", "a">>}

\* what a caller can pass: a list of records (no columns unless it has a record),
\* a DataFrame, or a value of another type
StoreData ==
    {d \in [kind : {"list", "DataFrame"}, cols : ColumnOrders, nrows : 0..MaxStoreRows] :
        d.kind = "list" => (d.nrows = 0 => d.cols = <<>>)}
    \cup {[kind |-> "other", cols |-> <<>>, nrows |-> 0]}

\* each method writes to a path of its own
Targets == {"save", "save_player_stats", "save_team_stats", "save_standings",
            "save_roster"}

\* df.empty: no rows or no columns
df_empty(data) == data.nrows = 0 \/ data.cols = <<>>

HeaderLine(data) == [kind |-> "header", cells |-> data.cols]
DataLines(data) == [i \in 1..data.nrows |-> [kind |-> "row", cells |-> data.cols]]

\* a path at which there is no file
AbsentFile == [exists |-> FALSE, lines |-> <<>>]

\* df.to_csv(filepath, mode=mode, index=False, header=header)
to_csv(file, data, mode, header) ==
    LET lines == IF header THEN <<HeaderLine(data)>> \o DataLines(data)
                 ELSE DataLines(data)
    IN  [exists |-> TRUE,
         lines |-> IF mode = "a" /\ file.exists THEN file.lines \o lines ELSE lines]

\* A variant of the emptiness test that looks at the rows only.
SkipsSave_RowsOnly(data) == data.nrows = 0

\* if df.empty: return None
SkipsSave(data) == df_empty(data)

\* a file written by an earlier run
OldFile ==
    [exists |-> TRUE,
     lines |-> <<[kind |-> "header", cells |-> <<"a", "b">>],
                 [kind |-> "row", cells |-> <<"a", "b">>]>>]

NoCall == [op |-> "-", mode |-> "w", data |-> [kind |-> "list", cols |-> <<>>, nrows |-> 0],
           io_ok |-> TRUE]

StoreOff ==
    /\ st_fs = [t \in Targets |-> AbsentFile] /\ st_calls = 0
    /\ st_args = NoCall /\ st_ret = "-"

InitStoreRun ==
    /\ \E old \in {AbsentFile, OldFile} : st_fs = [t \in Targets |-> old]
    /\ st_calls = 0
    /\ st_args = NoCall
    /\ st_ret = "-"

\* CSVStorage.save(data, filename, mode); io_ok is false when to_csv raises
\* before anything is written
Save ==
    /\ st_calls < MaxSaves
    /\ \E data \in StoreData, mode \in {"w", "a"}, io_ok \in BOOLEAN :
          /\ st_args' = [op |-> "save", mode |-> mode, data |-> data, io_ok |-> io_ok]
          /\ IF data.kind = "other"
             THEN st_ret' = "ValueError" /\ UNCHANGED st_fs
             ELSE IF SkipsSave(data)
             THEN st_ret' = "None" /\ UNCHANGED st_fs
             ELSE IF ~io_ok
             THEN st_ret' = "None" /\ UNCHANGED st_fs
             ELSE /\ st_ret' = "filepath"
                  /\ st_fs' = [st_fs EXCEPT !["save"] =
                        IF mode = "a" /\ st_fs["save"].exists
                        THEN to_csv(st_fs["save"], data, "a", FALSE)
                        ELSE to_csv(st_fs["save"], data, "w", TRUE)]
    /\ st_calls' = st_calls + 1

\* save_player_stats, save_team_stats, save_standings, save_roster
SaveTo(op) ==
    /\ st_calls < MaxSaves
    /\ \E data \in StoreData, io_ok \in BOOLEAN :
          /\ st_args' = [op |-> op, mode |-> "w", data |-> data, io_ok |-> io_ok]
          /\ IF data.kind = "other"
             THEN st_ret' = "ValueError" /\ UNCHANGED st_fs
             ELSE IF SkipsSave(data)
             THEN st_ret' = "None" /\ UNCHANGED st_fs
             ELSE IF ~io_ok
             THEN st_ret' = "None" /\ UNCHANGED st_fs
             ELSE /\ st_ret' = "filepath"
                  /\ st_fs' = [st_fs EXCEPT ![op] = to_csv(st_fs[op], data, "w", TRUE)]
    /\ st_calls' = st_calls + 1

SavePlayerStats == SaveTo("save_player_stats")
SaveTeamStats == SaveTo("save_team_stats")
SaveStandings == SaveTo("save_standings")
SaveRoster == SaveTo("save_roster")

(***************************************************************************)
(* The table parsers (parsers/, nba_crawler/parsers/).  A page holds one   *)
(* table; its cells hold text only (no anchors).  Labels are written in    *)
(* English: rank is 排名, player 球员, team 球队, games 场次, minutes 时间,  *)
(* points 得分, wins 胜, losses 负, conference 联盟, team_name_header 队名, *)
(* eastern 东部, western 西部.  In a standings table west_title is a text   *)
(* that contains 西部, east_title one that contains 东部, west_team a name  *)
(* of western_teams, east_team a name of eastern_teams.                    *)
(***************************************************************************)
\* PlayerStatsParser.category_fields["pts"]
PlayerDefaultFields == <<"rank", "player", "team", "games", "minutes", "points">>
\* TeamStatsParser.default_fields
TeamDefaultFields ==
    <<"rank", "team", "field_goals", "three_pointers", "free_throws", "rebounds",
      "assists", "turnovers", "steals", "blocks", "fouls", "points">>
\* StandingsParser.default_fields
StandingsDefaultFields ==
    <<"rank", "team", "wins", "losses", "win_rate", "games_behind", "home", "away",
      "division", "last_ten", "streak">>

Parsers == {"PlayerStatsParser", "TeamStatsParser", "StandingsParser",
            "ESPNStatsParser", "ESPNRosterParser"}

\* the text of the cell at position i: empty, or a text of its own between
\* white space
PositionDigits == <<"1", "2", "3", "4", "5", "6", "7", "8", "9">>
RawCell(i) == <<" ", PositionDigits[i], " ">>
RowOf(mask) == [i \in DOMAIN mask |-> IF mask[i] THEN RawCell(i) ELSE <<>>]
TableRows == {RowOf(mask) : mask \in SeqsOver(BOOLEAN, MaxCells)}

\* the header section: absent, without header cells, or with the labels of the page
TheadOptions ==
    {<<"absent">>, <<>>, <<"Name">>, <<"Name", "POS", "team_name_header", "Salary">>}
HasThead(table) == table.thead # <<"absent">>

Tables == [thead : TheadOptions, tbody : BOOLEAN, rows : SeqsOver(TableRows, MaxTableRows)]

\* rows of a standings table: a conference title row, or a row of rank, team
\* and wins whose team is in one of the lookup lists or in neither
StandingsTeams == {<<"west_team">>, <<"east_team">>, <<"2">>}
StandingsRows ==
    {<< <<"west_title">> >>, << <<"east_title">> >>}
        \cup {<< <<"1">>, team, <<"3">> >> : team \in StandingsTeams}
StandingsTables ==
    [thead : {<<"absent">>}, tbody : {TRUE},
     rows : SeqsOver(StandingsRows, MaxStandingsRows)]

\* cell.get_text(strip=True)
get_text(cell) == str_strip(cell)

\* for i, cell in enumerate(cells): if i < len(headers): row_data[headers[i]] = text
RECURSIVE ZipCells(_, _, _, _)
ZipCells(headers, cells, i, row_data) ==
    IF i > Len(cells) THEN row_data
    ELSE ZipCells(headers, cells, i + 1,
                  IF i <= Len(headers)
                  THEN DictSet(row_data, headers[i], get_text(cells[i]))
                  ELSE row_data)

\* StandingsParser: empty cells are skipped and do not advance col_index
RECURSIVE ZipNonEmptyCells(_, _, _, _, _)
ZipNonEmptyCells(fields, cells, i, col_index, row_data) ==
    IF i > Len(cells) THEN row_data
    ELSE IF get_text(cells[i]) = <<>>
         THEN ZipNonEmptyCells(fields, cells, i + 1, col_index, row_data)
         ELSE ZipNonEmptyCells(fields, cells, i + 1, col_index + 1,
                  IF col_index < Len(fields)
                  THEN DictSet(row_data, fields[col_index + 1], get_text(cells[i]))
                  ELSE row_data)

\* row_data.get(key) is truthy
Truthy(row_data, key) == key \in DOMAIN row_data /\ row_data[key] # <<>>

\* the headers PlayerStatsParser and TeamStatsParser use
HeadersOrDefault(table, default) ==
    LET headers == IF HasThead(table) THEN table.thead ELSE <<>>
    IN  IF headers = <<>> THEN default ELSE headers

\* tbody.find_all("tr") if tbody else table.find_all("tr")[1:], as positions of
\* table.rows; the row of a header section is the first tr of the table
BodyRows(table) ==
    IF table.tbody \/ HasThead(table) THEN DOMAIN table.rows
    ELSE DOMAIN table.rows \ {1}

\* the loop over rows of PlayerStatsParser.parse and TeamStatsParser.parse
RECURSIVE ZipRows(_, _, _, _)
ZipRows(table, headers, i, data) ==
    IF i > Len(table.rows) THEN data
    ELSE LET cells == table.rows[i]
             row_data == ZipCells(headers, cells, 1, <<>>)
         IN  ZipRows(table, headers, i + 1,
                     IF i \in BodyRows(table) /\ cells # <<>> /\ DOMAIN row_data # {}
                     THEN Append(data, [row |-> i, rec |-> row_data])
                     ELSE data)

\* the loop over rows of ESPNStatsParser.parse and ESPNRosterParser.parse
RECURSIVE ZipEspnRows(_, _, _, _, _)
ZipEspnRows(table, first, required, i, data) ==
    IF i > Len(table.rows) THEN data
    ELSE LET cells == table.rows[i]
             row_data == ZipCells(table.thead, cells, 1, first)
         IN  ZipEspnRows(table, first, required, i + 1,
                     IF cells # <<>> /\ DOMAIN row_data # {}
                        /\ (required # "" => Truthy(row_data, required))
                     THEN Append(data, [row |-> i, rec |-> row_data])
                     ELSE data)

\* the rows StandingsParser.parse walks: every tr of the table, the header row
\* included; position 0 stands for the header row
StandingsCells(table, i) ==
    IF i = 0 THEN [k \in DOMAIN table.thead |-> <<table.thead[k]>>] ELSE table.rows[i]
SkippedAsHeader(cells) == \E k \in DOMAIN cells : cells[k] = <<"team_name_header">>

\* text in row_text
InRowText(text, cells) == \E k \in DOMAIN cells : text \in Range(cells[k])

\* the team name of a row without anchors: the text of the second cell
TeamNameOf(cells) == IF Len(cells) > 1 THEN get_text(cells[2]) ELSE <<>>

\* "西部" in row_text and not found_western
IsWesternTitle(cells, found_western) ==
    InRowText("west_title", cells) /\ ~found_western

\* the conference after the lookup of the team name in the two team lists
ConferenceByTeam(team_name, current_conference) ==
    IF "west_team" \in Range(team_name) THEN "western"
    ELSE IF "east_team" \in Range(team_name) THEN "eastern"
    ELSE current_conference

\* the loop over rows of StandingsParser.parse; data holds the records in
\* document order, each tagged with its conference
RECURSIVE ZipStandingsRows(_, _, _, _, _)
ZipStandingsRows(table, i, current_conference, found_western, data) ==
    IF i > Len(table.rows) THEN data
    ELSE LET cells == StandingsCells(table, i) IN
         IF cells = <<>>
         THEN ZipStandingsRows(table, i + 1, current_conference, found_western, data)
         ELSE IF IsWesternTitle(cells, found_western)
         THEN ZipStandingsRows(table, i + 1, "western", TRUE, data)
         ELSE IF SkippedAsHeader(cells)
         THEN ZipStandingsRows(table, i + 1, current_conference, found_western, data)
         ELSE LET conference == ConferenceByTeam(TeamNameOf(cells), current_conference)
                  row_data == ZipNonEmptyCells(StandingsDefaultFields, cells, 1, 0,
                                               DictSet(<<>>, "conference", <<conference>>))
              IN  ZipStandingsRows(table, i + 1, conference, found_western,
                     IF Truthy(row_data, "team") /\ Truthy(row_data, "wins")
                     THEN Append(data, [row |-> i, rec |-> row_data])
                     ELSE data)

IsEasternRecord(r) == r.rec["conference"] = <<"eastern">>
IsWesternRecord(r) == r.rec["conference"] = <<"western">>

\* StandingsParser.parse_to_list: the eastern records, then the western ones
parse_to_list(table) ==
    LET all == ZipStandingsRows(table, IF HasThead(table) THEN 0 ELSE 1,
                                "eastern", FALSE, <<>>)
    IN  SelectSeq(all, IsEasternRecord) \o SelectSeq(all, IsWesternRecord)

\* X.parse(html) for a page with one table
parse(parser, table) ==
    CASE parser = "PlayerStatsParser" ->
            ZipRows(table, HeadersOrDefault(table, PlayerDefaultFields), 1, <<>>)
      [] parser = "TeamStatsParser" ->
            ZipRows(table, HeadersOrDefault(table, TeamDefaultFields), 1, <<>>)
      [] parser = "StandingsParser" -> parse_to_list(table)
      [] parser = "ESPNStatsParser" ->
            IF ~HasThead(table) \/ ~table.tbody THEN <<>>
            ELSE ZipEspnRows(table, DictSet(<<>>, "Category", <<"points">>), "", 1, <<>>)
      [] parser = "ESPNRosterParser" ->
            IF ~HasThead(table) \/ ~table.tbody
               \/ ~\E k \in DOMAIN table.thead : table.thead[k] \in {"Name", "POS", "Salary"}
            THEN <<>>
            ELSE ZipEspnRows(table, DictSet(<<>>, "Team", <<"team">>), "Name", 1, <<>>)

ParseOff ==
    /\ pa_pc = "off" /\ pa_parser = "PlayerStatsParser"
    /\ pa_table = [thead |-> <<>>, tbody |-> FALSE, rows |-> <<>>]
    /\ pa_data = <<>> /\ pa_src = <<>>

InitParseRun ==
    /\ pa_pc = "start" /\ pa_data = <<>> /\ pa_src = <<>>
    /\ \/ pa_parser \in Parsers /\ pa_table \in Tables
       \/ pa_parser = "StandingsParser" /\ pa_table \in StandingsTables

ParseWith(parser) ==
    /\ pa_pc = "start" /\ pa_parser = parser
    /\ LET out == parse(parser, pa_table) IN
          /\ pa_data' = [k \in DOMAIN out |-> out[k].rec]
          /\ pa_src' = [k \in DOMAIN out |-> out[k].row]
    /\ pa_pc' = "done"
    /\ UNCHANGED <<pa_parser, pa_table>>

ParsePlayerStats == ParseWith("PlayerStatsParser")
ParseTeamStats == ParseWith("TeamStatsParser")
ParseStandings == ParseWith("StandingsParser")
ParseEspnStats == ParseWith("ESPNStatsParser")
ParseEspnRoster == ParseWith("ESPNRosterParser")

(***************************************************************************)
(* The team statistics views (nba_crawler/parsers/espn/espn_team_stats.py). *)
(* A label is a sequence of parts: <<"PTS">> is the header PTS, and         *)
(* <<"OFF_", "PTS">> the label OFF_PTS.  The page of a view holds one table *)
(* with a header section and a body; a header label carries no OFF_ or DEF_ *)
(* prefix.  In a row the first cell holds a team name and every other cell  *)
(* a value that names the view it was read from.                            *)
(***************************************************************************)
ViewHeaders ==
    {<< <<"Team">>, <<"PTS">> >>,
     << <<"Team">>, <<"PTS">>, <<"AST">> >>,
     << <<"NAME">>, <<"REB">> >>}
ViewTeams == {<<"A">>, <<"B">>, <<>>}
ViewPages == [headers : ViewHeaders, teams : SeqsOver(ViewTeams, MaxViewRows)]

\* the cells of the row of a team on the page of a view
ViewCells(page, view, k) ==
    [i \in DOMAIN page.headers |-> IF i = 1 THEN page.teams[k] ELSE <<view>>]

\* ESPNTeamStatsParser.parse(html, view): one record per row, View first (every
\* row has cells and the table has header labels, so no row is skipped)
parse_view(page, view) ==
    [k \in DOMAIN page.teams |->
        ZipCells(page.headers, ViewCells(page, view, k), 1,
                 DictSet(<<>>, <<"View">>, <<view>>))]

\* the keys of a record in insertion order: View, then the header labels
ItemKeys(page) == << <<"View">> >> \o page.headers

\* item.get("Team", item.get("NAME", ""))
team_name_of(item) ==
    IF <<"Team">> \in DOMAIN item THEN item[<<"Team">>]
    ELSE IF <<"NAME">> \in DOMAIN item THEN item[<<"NAME">>]
    ELSE <<>>

\* merged_data as a dict in insertion order: a sequence of [team, rec]
TeamIndex(merged_data, team_name) ==
    {j \in DOMAIN merged_data : merged_data[j].team = team_name}

\* merged_data[team_name] = item.copy()
StoreGeneral(merged_data, item) ==
    LET team_name == team_name_of(item) IN
    IF team_name = <<>> THEN merged_data
    ELSE IF TeamIndex(merged_data, team_name) = {}
         THEN Append(merged_data, [team |-> team_name, rec |-> item])
         ELSE [j \in DOMAIN merged_data |->
                  IF merged_data[j].team = team_name
                  THEN [team |-> team_name, rec |-> item] ELSE merged_data[j]]

\* A variant that adds the prefixed field whether or not the label is present.
MergeViewField_Always(rec, prefix, key, value) ==
    IF key # <<"View">> THEN DictSet(rec, <<prefix>> \o key, value) ELSE rec

\* if key not in merged_data[team_name] or key == "View":
\*     if key != "View": merged_data[team_name][f"OFF_{key}"] = value
MergeViewField(rec, prefix, key, value) ==
    IF (key \notin DOMAIN rec \/ key = <<"View">>) /\ key # <<"View">>
    THEN DictSet(rec, <<prefix>> \o key, value)
    ELSE rec

\* for key, value in item.items()
RECURSIVE MergeViewItem(_, _, _, _, _)
MergeViewItem(rec, prefix, item, keys, i) ==
    IF i > Len(keys) THEN rec
    ELSE MergeViewItem(IF keys[i] \in DOMAIN item
                       THEN MergeViewField(rec, prefix, keys[i], item[keys[i]])
                       ELSE rec,
                       prefix, item, keys, i + 1)

\* the loop over the records of the offensive or the defensive view
RECURSIVE MergeView(_, _, _, _, _)
MergeView(merged_data, prefix, data, keys, k) ==
    IF k > Len(data) THEN merged_data
    ELSE LET item == data[k]
             team_name == team_name_of(item)
         IN  MergeView([j \in DOMAIN merged_data |->
                          IF team_name # <<>> /\ merged_data[j].team = team_name
                          THEN [team |-> team_name,
                                rec |-> MergeViewItem(merged_data[j].rec, prefix,
                                                      item, keys, 1)]
                          ELSE merged_data[j]],
                       prefix, data, keys, k + 1)

\* the loop over the records of the general view
RECURSIVE MergeGeneral(_, _, _)
MergeGeneral(merged_data, data, k) ==
    IF k > Len(data) THEN merged_data
    ELSE MergeGeneral(StoreGeneral(merged_data, data[k]), data, k + 1)

\* ESPNTeamStatsParser.parse_all_views
parse_all_views(pages) ==
    LET general_data == parse_view(pages.general, "general")
        offensive_data == parse_view(pages.offensive, "offensive")
        defensive_data == parse_view(pages.defensive, "defensive")
        general == MergeGeneral(<<>>, general_data, 1)
        offensive == MergeView(general, "OFF_", offensive_data,
                               ItemKeys(pages.offensive), 1)
        merged_data == MergeView(offensive, "DEF_", defensive_data,
                                 ItemKeys(pages.defensive), 1)
    IN  [j \in DOMAIN merged_data |-> merged_data[j].rec]

NoPage == [headers |-> << <<"Team">>, <<"PTS">> >>, teams |-> <<>>]

ViewsOff ==
    /\ tv_pc = "off"
    /\ tv_pages = [general |-> NoPage, offensive |-> NoPage, defensive |-> NoPage]
    /\ tv_result = <<>>

InitViewsRun ==
    /\ tv_pc = "start"
    /\ tv_pages \in [general : ViewPages, offensive : ViewPages, defensive : ViewPages]
    /\ tv_result = <<>>

ParseAllViews ==
    /\ tv_pc = "start"
    /\ tv_result' = parse_all_views(tv_pages)
    /\ tv_pc' = "done"
    /\ UNCHANGED tv_pages

(***************************************************************************)
(* Specifications: each runs one component; the others stay off.          *)
(***************************************************************************)
InitNorm == InitNormRun /\ SpellOff /\ NamesOff /\ SalaryOff /\ FetchOff /\ BatchOff /\ CleanOff
        /\ StoreOff /\ ParseOff /\ ViewsOff
NextNorm ==
    \/ (NormalizeAcn /\ UNCHANGED notNorm)
    \/ (NormalizeDm /\ UNCHANGED notNorm)
    \/ (Renormalize /\ UNCHANGED notNorm)
SpecNorm == InitNorm /\ [][NextNorm]_vars

InitSpell == InitSpellRun /\ NormOff /\ NamesOff /\ SalaryOff /\ FetchOff /\ BatchOff /\ CleanOff
        /\ StoreOff /\ ParseOff /\ ViewsOff
NextSpell ==
    \/ (RespellCase /\ UNCHANGED notSpell)
    \/ (RespellAccent /\ UNCHANGED notSpell)
    \/ (AddCombiningMark /\ UNCHANGED notSpell)
    \/ (DropCombiningMark /\ UNCHANGED notSpell)
    \/ (AddPunctuation /\ UNCHANGED notSpell)
    \/ (DropPunctuation /\ UNCHANGED notSpell)
    \/ (NormalizeBoth /\ UNCHANGED notSpell)
SpecSpell == InitSpell /\ [][NextSpell]_vars

\* a reconciliation run: either the localized-name merge or the salary merge
InitMerge ==
    /\ NormOff /\ SpellOff /\ FetchOff /\ BatchOff /\ CleanOff
        /\ StoreOff /\ ParseOff /\ ViewsOff
    /\ \/ InitNamesRun /\ SalaryOff
       \/ InitSalaryRun /\ NamesOff
NextMerge ==
    \/ (FetchSeasonOK /\ UNCHANGED notNames)
    \/ (FetchSeasonFailed /\ UNCHANGED notNames)
    \/ (StorePlayer /\ UNCHANGED notNames)
    \/ (EndSeason /\ UNCHANGED notNames)
    \/ (ManualEntry /\ UNCHANGED notNames)
    \/ (MappingLoaded /\ UNCHANGED notNames)
    \/ (MatchRow /\ UNCHANGED notNames)
    \/ (FinishNames /\ UNCHANGED notNames)
    \/ (CheckColumns /\ UNCHANGED notSalary)
    \/ (BuildSalaryMap /\ UNCHANGED notSalary)
    \/ (SalaryMapBuilt /\ UNCHANGED notSalary)
    \/ (MergeSalaries /\ UNCHANGED notSalary)
SpecMerge == InitMerge /\ [][NextMerge]_vars

InitFetch == InitFetchRun /\ NormOff /\ SpellOff /\ NamesOff /\ SalaryOff /\ BatchOff /\ CleanOff
        /\ StoreOff /\ ParseOff /\ ViewsOff
GetCall == Get /\ UNCHANGED notFetch
AttemptStep == Attempt /\ UNCHANGED notFetch
BackoffStep == Backoff /\ UNCHANGED notFetch
NextIterationStep == NextIteration /\ UNCHANGED notFetch
NextFetch == GetCall \/ AttemptStep \/ BackoffStep \/ NextIterationStep
\* the handler runs on the caller's thread: a call that has started keeps running
SpecFetch ==
    InitFetch /\ [][NextFetch]_vars
        /\ WF_vars(AttemptStep \/ BackoffStep \/ NextIterationStep)

InitBatch == InitBatchRun /\ NormOff /\ SpellOff /\ NamesOff /\ SalaryOff /\ FetchOff /\ CleanOff
        /\ StoreOff /\ ParseOff /\ ViewsOff
NextBatch ==
    \/ (IntegrateTeam /\ UNCHANGED notBatch)
    \/ (IntegrateLoopEnd /\ UNCHANGED notBatch)
    \/ (IntegrateReport /\ UNCHANGED notBatch)
    \/ (CrawlTeam /\ UNCHANGED notBatch)
    \/ (CrawlLoopEnd /\ UNCHANGED notBatch)
SpecBatch == InitBatch /\ [][NextBatch]_vars

InitClean ==
    InitCleanRun /\ NormOff /\ SpellOff /\ NamesOff /\ SalaryOff /\ FetchOff /\ BatchOff
        /\ StoreOff /\ ParseOff /\ ViewsOff
NextClean ==
    \/ (ParsePercentage /\ UNCHANGED notClean)
    \/ (CleanPlayerStats /\ UNCHANGED notClean)
    \/ (CleanTeamStats /\ UNCHANGED notClean)
    \/ (CleanStandings /\ UNCHANGED notClean)
    \/ (CleanRoster /\ UNCHANGED notClean)
SpecClean == InitClean /\ [][NextClean]_vars

InitStore ==
    InitStoreRun /\ NormOff /\ SpellOff /\ NamesOff /\ SalaryOff /\ FetchOff /\ BatchOff
        /\ CleanOff /\ ParseOff /\ ViewsOff
NextStore ==
    \/ (Save /\ UNCHANGED notStore)
    \/ (SavePlayerStats /\ UNCHANGED notStore)
    \/ (SaveTeamStats /\ UNCHANGED notStore)
    \/ (SaveStandings /\ UNCHANGED notStore)
    \/ (SaveRoster /\ UNCHANGED notStore)
SpecStore == InitStore /\ [][NextStore]_vars

InitParse ==
    InitParseRun /\ NormOff /\ SpellOff /\ NamesOff /\ SalaryOff /\ FetchOff /\ BatchOff
        /\ CleanOff /\ StoreOff /\ ViewsOff
NextParse ==
    \/ (ParsePlayerStats /\ UNCHANGED notParse)
    \/ (ParseTeamStats /\ UNCHANGED notParse)
    \/ (ParseStandings /\ UNCHANGED notParse)
    \/ (ParseEspnStats /\ UNCHANGED notParse)
    \/ (ParseEspnRoster /\ UNCHANGED notParse)
SpecParse == InitParse /\ [][NextParse]_vars

InitViews ==
    InitViewsRun /\ NormOff /\ SpellOff /\ NamesOff /\ SalaryOff /\ FetchOff /\ BatchOff
        /\ CleanOff /\ StoreOff /\ ParseOff
NextViews == ParseAllViews /\ UNCHANGED notViews
SpecViews == InitViews /\ [][NextViews]_vars

\* any one of the runs above
Init ==
    \/ InitNorm \/ InitSpell \/ InitMerge \/ InitFetch \/ InitBatch \/ InitClean
    \/ InitStore \/ InitParse \/ InitViews
Next ==
    \/ NextNorm \/ NextSpell \/ NextMerge \/ NextFetch \/ NextBatch \/ NextClean
    \/ NextStore \/ NextParse \/ NextViews
Spec == Init /\ [][Next]_vars

(***************************************************************************)
(* Claims about the Name Map and the two merges.                           *)
(***************************************************************************)
\* C1: while the Name Map is built, an entry once inserted under a key is never
\* replaced by a later-loaded entry for the same key (first writer wins).
C1_FirstWriterWins ==
    [][\A k \in DOMAIN name_map :
          k \in DOMAIN name_map' /\ name_map'[k] = name_map[k]]_vars

\* C24: each step of the manual table loop leaves every entry already in the
\* Name Map (official, or inserted by an earlier manual spelling) unchanged, and
\* adds the entry's non-empty normalized key with the manual value exactly when
\* the key is absent; so the final keys are the official keys plus the non-empty
\* normalized manual keys.
C24_ManualTableAdditive ==
    [][(lm_pc = "manual" /\ lm_manual' = lm_manual + 1) =>
          LET entry == manual_dict[lm_manual']
              key == normalize_name(Str(entry.en))
          IN  /\ \A k \in DOMAIN name_map :
                    k \in DOMAIN name_map' /\ name_map'[k] = name_map[k]
              /\ DOMAIN name_map' =
                    DOMAIN name_map \cup (IF key # <<>> THEN {key} ELSE {})
              /\ (key # <<>> /\ key \notin DOMAIN name_map) =>
                    name_map'[key] = [cn |-> entry.cn, en |-> entry.en]]_vars

C24_Witness ==
    /\ lm_pc = "manual" /\ lm_manual = Len(manual_dict)
    /\ DOMAIN name_map = {chris_paul, gg_jackson}
    /\ name_map[chris_paul] = [cn |-> "cn(B)", en |-> ChrisPaul]
    /\ name_map[gg_jackson] = [cn |-> "cn(GG Jackson)", en |-> gg_jackson]

ExactIndex(map, key) == {i \in DOMAIN map : map[i].key = key}
Least(S) == CHOOSE x \in S : \A y \in S : x <= y

\* surname and first initial agree: the last space-delimited tokens are equal and
\* the first tokens start with the same character
SurnameInitialAgree(key, other) ==
    LET kt == str_split(key)
        ot == str_split(other)
    IN /\ kt # <<>> /\ ot # <<>>
       /\ kt[Len(kt)] = ot[Len(ot)]
       /\ kt[1][1] = ot[1][1]

Candidates(map, key) == {i \in DOMAIN map : SurnameInitialAgree(key, map[i].key)}

SalaryStagesRan == sm_pc = "done" /\ hupu_has_en /\ espn_has_name

\* C2: a primary key that is itself a key of the salary map gets the salary
\* stored under that exact key, whatever surname-and-initial candidates precede it.
C2_ExactTakesPrecedence ==
    SalaryStagesRan =>
        /\ Len(merged_df) = Len(hupu_df)
        /\ \A i \in DOMAIN hupu_df :
              LET key == dm_normalize_name(hupu_df[i].en)
              IN ExactIndex(salary_map, key) # {} =>
                    \A j \in ExactIndex(salary_map, key) :
                        merged_df[i].salary = salary_map[j].salary

C2_Witness ==
    /\ SalaryStagesRan
    /\ salary_map = << [key |-> jaylin_williams, salary |-> "$1"],
                       [key |-> jalen_williams, salary |-> "$2"] >>
    /\ hupu_df = << [player |-> "p1", en |-> Str(JalenWilliams)] >>
    /\ SurnameInitialAgree(jalen_williams, salary_map[1].key)
    /\ merged_df[1].salary = "$2"

\* C3: a primary key without an exact match gets the salary of the first key, in
\* the insertion order of the salary map, that agrees with it in surname and first
\* initial, and the empty value when no key does.
C3_FirstCandidateWins ==
    SalaryStagesRan =>
        /\ Len(merged_df) = Len(hupu_df)
        /\ \A i \in DOMAIN hupu_df :
              LET key == dm_normalize_name(hupu_df[i].en)
                  cands == Candidates(salary_map, key)
              IN ExactIndex(salary_map, key) = {} =>
                    merged_df[i].salary =
                        IF cands = {} THEN "" ELSE salary_map[Least(cands)].salary

C3_Witness ==
    /\ SalaryStagesRan
    /\ salary_map = << [key |-> jaylin_williams, salary |-> "$1"],
                       [key |-> jalen_williams, salary |-> "$2"] >>
    /\ hupu_df = << [player |-> "p2", en |-> Str(JWilliams8)] >>
    /\ Candidates(salary_map, dm_normalize_name(hupu_df[1].en)) = {1, 2}
    /\ merged_df[1].salary = "$1"

\* C4: a record "LeBron James" is matched to a Name Map entry stored under the
\* slug-derived key "lebronjames", and gets that entry's localized name.
C4_SlugKeyMatches ==
    (lm_pc = "done" /\ lebronjames \in DOMAIN name_map
                    /\ lebron_james \notin DOMAIN name_map) =>
        \A i \in DOMAIN out_df :
            out_df[i].PLAYER_NAME = Str(LeBronJames) =>
                out_df[i].chinese_name = name_map[lebronjames].cn

NamesMatchingRan == lm_pc \in {"match", "done", "raised"}

\* C8: a primary record that matches at neither stage does not make the merge
\* raise; it stays in the output at its position with an empty enrichment field.
C8_UnmatchedKeptEmpty ==
    /\ NamesMatchingRan =>
          \A i \in DOMAIN nba_df :
              normalize_name(nba_df[i]) \notin DOMAIN name_map =>
                  /\ lm_pc # "raised"
                  /\ lm_pc = "done" =>
                        /\ Len(out_df) = Len(nba_df)
                        /\ out_df[i].PLAYER_NAME = nba_df[i]
                        /\ out_df[i].chinese_name = ""
    /\ SalaryStagesRan =>
          /\ Len(merged_df) = Len(hupu_df)
          /\ \A i \in DOMAIN hupu_df :
                LET key == dm_normalize_name(hupu_df[i].en)
                IN (ExactIndex(salary_map, key) = {} /\ Candidates(salary_map, key) = {}) =>
                      /\ merged_df[i].player = hupu_df[i].player
                      /\ merged_df[i].en = hupu_df[i].en
                      /\ merged_df[i].salary = ""

C8_Witness ==
    /\ SalaryStagesRan
    /\ hupu_df = << [player |-> "p3", en |-> Str(KenrichWilliams)],
                    [player |-> "p1", en |-> Str(JalenWilliams)] >>
    /\ salary_map = << [key |-> jalen_williams, salary |-> "$2"] >>
    /\ merged_df[1] = [player |-> "p3", en |-> Str(KenrichWilliams), salary |-> ""]
    /\ merged_df[2].salary = "$2"

\* C30: on every return path of merge_roster_with_salary the result holds the
\* primary records in the same number and order with every original field
\* unchanged; its columns are the original ones, then at most 薪资; the helper
\* column _match_name is not among them.
C30_FrameOfSalaryMerge ==
    sm_pc = "done" =>
        /\ Len(merged_df) = Len(hupu_df)
        /\ \A i \in DOMAIN hupu_df :
              /\ merged_df[i].player = hupu_df[i].player
              /\ merged_df[i].en = hupu_df[i].en
        /\ merged_columns \in {HupuColumns(hupu_has_en),
                               Append(HupuColumns(hupu_has_en), "salary")}
        /\ "_match_name" \notin Range(merged_columns)

(***************************************************************************)
(* Claims about the fetcher.                                               *)
(***************************************************************************)
AllFailed(outs) == \A i \in DOMAIN outs : outs[i] # "200"

\* C9: one get call makes at most MAX_RETRIES network attempts; after that many
\* failures it returns None and no further attempt is dispatched.
C9_AtMostMaxRetries ==
    /\ Len(rh_outcomes) <= MAX_RETRIES
    /\ (Len(rh_outcomes) = MAX_RETRIES /\ AllFailed(rh_outcomes)) =>
          /\ rh_pc \in {"next", "returned"}
          /\ rh_pc = "returned" => rh_result = "None"

C9_Witness ==
    /\ rh_pc = "returned"
    /\ rh_outcomes = <<"500", "ConnectionError", "Timeout">>
    /\ rh_result = "None"

\* C10: whatever the attempts' outcomes, get never lets an exception out and every
\* call returns: a response, or None exactly when every permitted attempt failed.
C10_GetAlwaysReturns ==
    /\ [](/\ rh_pc # "raised"
          /\ rh_pc = "returned" =>
                /\ rh_result \in {"Response", "None"}
                /\ rh_result = "None" <=>
                      (Len(rh_outcomes) = MAX_RETRIES /\ AllFailed(rh_outcomes))
                /\ rh_caller = "get_html" =>
                      (rh_html = "None" <=> rh_result = "None"))
    /\ (rh_pc \in {"attempt", "backoff", "next"}) ~> (rh_pc = "returned")

C10_Witness ==
    /\ rh_pc = "returned"
    /\ rh_caller = "get_html"
    /\ rh_outcomes = <<"Timeout", "204", "RequestException">>
    /\ rh_result = "None"
    /\ rh_html = "None"

\* C11: every network attempt is dispatched no earlier than REQUEST_DELAY after
\* the end of the network attempt before it, whatever that attempt's outcome and
\* whichever call made it.
C11_PacedFromPreviousEnd ==
    rh_before # -1 => rh_dispatch - rh_before >= REQUEST_DELAY

\* a response whose status code is in the 2xx class
Is2xx(outcome) == outcome \in {"200", "204"}

\* C22: within one get call an attempt is followed by another attempt only when
\* it ended in a non-2xx status, a connection error or a timeout; an attempt
\* answered with a 2xx status ends the call at once, returning the response.
C22_RetryOnlyAfterFailure ==
    /\ \A i \in 1..(Len(rh_outcomes) - 1) : ~Is2xx(rh_outcomes[i])
    /\ (rh_outcomes # <<>> /\ Is2xx(rh_outcomes[Len(rh_outcomes)])) =>
          rh_pc = "returned" /\ rh_result = "Response"

\* C23: within one get call attempt k+1 is dispatched exactly 2*k seconds after
\* the end of the failed attempt k (2 s after the first failure, 4 s after the
\* second); after the final failed attempt get returns None without waiting.
\* Times are in half seconds.
C23_LinearBackoff ==
    /\ Len(rh_outcomes) >= 2 =>
          rh_dispatch - rh_before = 2 * (Len(rh_outcomes) - 1) * 2
    /\ (rh_pc = "returned" /\ rh_result = "None") => rh_clock = rh_end

C23_Witness ==
    /\ rh_pc = "returned" /\ rh_result = "None"
    /\ rh_outcomes = <<"500", "Timeout", "204">>
    /\ rh_dispatch - rh_before = 8
    /\ rh_clock = rh_end

(***************************************************************************)
(* Claims about the batch runs.                                            *)
(***************************************************************************)
\* the fetch gave the sentinel, or the extraction gave an empty record set
NoData(item) == item.html = "None" \/ item.data = "[]"

\* C12: in a batch over the teams, a team whose fetch or extraction yields no
\* data never makes an exception leave the batch: the batch is not ended by an
\* exception raised while that team was the current item.
C12_NoDataContained ==
    (ba_pc = "raised" /\ ba_error = "KeyError") => ~NoData(ba_item)

\* C29: in integrate_all_rosters the matched count never exceeds the total, and
\* the completion report never ends the run with an exception: with a total of
\* zero (no team produced any data) the run still completes.
C29_ReportNeverFails ==
    /\ total_matched <= total_players
    /\ ba_pc = "raised" => ba_error # "ZeroDivisionError"

(***************************************************************************)
(* Claims about the field cleaner.                                         *)
(***************************************************************************)
\* |num| > 1
MagnitudeAboveOne(num) == num.n > Pow10(num.d) \/ 0 - num.n > Pow10(num.d)

\* C13: _parse_percentage returns the parsed remainder unscaled for a text with
\* a % sign; for a text without one it returns the parsed number times 100 when
\* the magnitude of the number is at most 1, and the parsed number itself when
\* the magnitude is above 1.
C13_PercentageScaling ==
    (cl_pc = "done" /\ cl_op = "_parse_percentage" /\ cl_value.tag = "str") =>
        LET v == str_strip(cl_value.s)
            rest == SelectSeq(v, NotPercent)
        IN  /\ (rest # v /\ ParseFloat(rest) # ValueError) =>
                    cl_result = ParseFloat(rest)
            /\ (rest = v /\ ParseFloat(v) # ValueError) =>
                    cl_result = IF MagnitudeAboveOne(ParseFloat(v))
                                THEN ParseFloat(v) ELSE Times100(ParseFloat(v))

\* the rows of the input after the empty rows are dropped and the columns
\* converted, before de-duplication
ConvertedInput == ConvertStats(cl_op, SelectSeq(cl_data, SomeStats))
FirstEqual(rows, r) == Least({i \in DOMAIN rows : SameStatsRow(rows[i], r)})

\* C14: after clean_player_stats, clean_team_stats or clean_standings no two rows
\* of the output are equal in every field; every cleaned input row is present
\* once, so two byte-identical input rows yield one row; the row kept is the
\* first occurrence, and the kept rows stand in input order.
C14_FullRowDuplicatesDropped ==
    (cl_pc = "done" /\ cl_op \in StatsOps) =>
        /\ \A i, j \in DOMAIN cl_df : i < j => ~SameStatsRow(cl_df[i], cl_df[j])
        /\ \A i \in DOMAIN ConvertedInput :
              Cardinality({j \in DOMAIN cl_df :
                              SameStatsRow(cl_df[j], ConvertedInput[i])}) = 1
        /\ \A j \in DOMAIN cl_df :
              \E i \in DOMAIN ConvertedInput : cl_df[j] = ConvertedInput[i]
        /\ \A i, j \in DOMAIN cl_df :
              i < j => FirstEqual(ConvertedInput, cl_df[i])
                         < FirstEqual(ConvertedInput, cl_df[j])
        /\ \A i, j \in DOMAIN cl_data :
              (i < j /\ cl_data[i] = cl_data[j] /\ SomeStats(cl_data[i])) =>
                  Cardinality({k \in DOMAIN cl_df :
                      SameStatsRow(cl_df[k], ConvertStatsRow(cl_op, cl_data[i]))}) = 1

C14_Witness ==
    /\ cl_pc = "done" /\ cl_op = "clean_standings"
    /\ Len(cl_data) = 3 /\ cl_data[1] = cl_data[3] /\ cl_data[1] # cl_data[2]
    /\ cl_data[1].name = Str(<<"b">>) /\ cl_data[2].name = Str(<<"a">>)
    /\ cl_df = <<ConvertStatsRow(cl_op, cl_data[1]), ConvertStatsRow(cl_op, cl_data[2])>>

\* the identity of a roster record: 球员 after trimming
Identity(r) == StripCell(r.player)
FirstWithIdentity(id) == Least({i \in DOMAIN cl_data : Identity(cl_data[i]) = id})

\* C15 as stated: after clean_roster every trimmed identity occurs in exactly one
\* output row, and that row carries the other fields of the first input row
\* with that identity, unchanged.
C15_FirstRowKeptUnchanged ==
    (cl_pc = "done" /\ cl_op = "clean_roster") =>
        /\ \A i, j \in DOMAIN cl_df : i < j => cl_df[i].player # cl_df[j].player
        /\ \A i \in DOMAIN cl_data :
              \E j \in DOMAIN cl_df : cl_df[j].player = Identity(cl_data[i])
        /\ \A j \in DOMAIN cl_df :
              /\ \E i \in DOMAIN cl_data : Identity(cl_data[i]) = cl_df[j].player
              /\ cl_df[j].en = cl_data[FirstWithIdentity(cl_df[j].player)].en
              /\ cl_df[j].number = cl_data[FirstWithIdentity(cl_df[j].player)].number

\* C15, amended: after clean_roster every trimmed identity occurs in exactly one
\* output row, and that row carries the fields of the first input row with that
\* identity: 英文名 whitespace-trimmed, every other field unchanged.
C15_FirstRowKeptTrimmed ==
    (cl_pc = "done" /\ cl_op = "clean_roster") =>
        /\ \A i, j \in DOMAIN cl_df : i < j => cl_df[i].player # cl_df[j].player
        /\ \A i \in DOMAIN cl_data :
              \E j \in DOMAIN cl_df : cl_df[j].player = Identity(cl_data[i])
        /\ \A j \in DOMAIN cl_df :
              /\ \E i \in DOMAIN cl_data : Identity(cl_data[i]) = cl_df[j].player
              /\ cl_df[j].en = StripCell(cl_data[FirstWithIdentity(cl_df[j].player)].en)
              /\ cl_df[j].number = cl_data[FirstWithIdentity(cl_df[j].player)].number

C15_Witness ==
    /\ cl_pc = "done" /\ cl_op = "clean_roster"
    /\ cl_data = <<[player |-> Str(<<" ","a">>), en |-> Str(<<" ","x">>),
                    number |-> Str(<<"1">>)],
                   [player |-> Str(<<"b">>), en |-> Str(<<"x">>), number |-> Str(<<"1">>)],
                   [player |-> Str(<<"a">>), en |-> Str(<<"x">>), number |-> Str(<<"2">>)]>>
    /\ cl_df = <<[player |-> Str(<<"a">>), en |-> Str(<<"x">>), number |-> Str(<<"1">>)],
                 [player |-> Str(<<"b">>), en |-> Str(<<"x">>), number |-> Str(<<"1">>)]>>

\* the rank text of an input row is parseable
RankParses(r) == r.rank.tag = "str" /\ ParseFloat(r.rank.s) # ValueError

\* C21: clean_player_stats, clean_team_stats and clean_standings never raise on
\* the text of a rank field, whether it is not numeric or numeric but not an
\* integer; in the output a rank is an integer or the missing marker, never a
\* zero that stands for an unparseable text.
C21_RankTextNeverRaises ==
    (cl_op \in StatsOps /\ cl_pc # "start") =>
        /\ cl_pc = "done"
        /\ \A j \in DOMAIN cl_df : cl_df[j].rank.tag \in {"Int64", "NA"}
        /\ \A i \in DOMAIN cl_data :
              (SomeStats(cl_data[i]) /\ ~RankParses(cl_data[i])) =>
                  \E j \in DOMAIN cl_df :
                      /\ SameStatsRow(cl_df[j], ConvertStatsRow(cl_op, cl_data[i]))
                      /\ cl_df[j].rank = NA

(***************************************************************************)
(* Claims about the store.                                                 *)
(***************************************************************************)
\* C16: a call that persists an empty record set, through save in either mode
\* or through one of the four save_* methods, returns None and leaves every
\* target as it was: an absent file stays absent, an existing file keeps its
\* content.
C16_EmptySetTouchesNothing ==
    [][(st_calls' # st_calls /\ st_args'.data.kind # "other" /\ df_empty(st_args'.data))
          => (st_ret' = "None" /\ st_fs' = st_fs)]_vars

C16_Witness ==
    /\ st_args.op = "save" /\ st_args.mode = "a"
    /\ st_args.data = [kind |-> "DataFrame", cols |-> <<"a", "b">>, nrows |-> 0]
    /\ st_calls = 2
    /\ st_ret = "None"
    /\ st_fs["save"].exists
    /\ st_fs["save"].lines = <<[kind |-> "header", cells |-> <<"b", "a">>],
                               [kind |-> "row", cells |-> <<"b", "a">>]>>

\* a file with exactly one header line, its first line, and whose data rows hold
\* in every position a value of the field that the header names there
WellFormedFile(file) ==
    /\ file # <<>>
    /\ file[1].kind = "header"
    /\ \A i \in 2..Len(file) :
          /\ file[i].kind = "row"
          /\ file[i].cells = file[1].cells

\* C17: after any sequence of successful non-empty save calls on one target, an
\* overwrite followed by appends of record sets with any field order, the file
\* has one header line, which is its first, and every value of every data row
\* sits in the column of its own field.
C17_OneHeaderAlignedRows ==
    \A t \in Targets : st_fs[t].exists => WellFormedFile(st_fs[t].lines)

(***************************************************************************)
(* Claims about the table parsers.                                         *)
(***************************************************************************)
\* the keys a parser puts into every record before it looks at the cells
FixedKeys == {"conference", "Category", "Team"}

\* the column labels a parser zips the cells against
LabelsOf(parser, table) ==
    CASE parser = "PlayerStatsParser" -> HeadersOrDefault(table, PlayerDefaultFields)
      [] parser = "TeamStatsParser" -> HeadersOrDefault(table, TeamDefaultFields)
      [] parser = "StandingsParser" -> StandingsDefaultFields
      [] OTHER -> IF HasThead(table) THEN table.thead ELSE <<>>

\* the default label list of a parser (the ESPN parsers carry none)
DefaultLabelsOf(parser) ==
    CASE parser = "PlayerStatsParser" -> PlayerDefaultFields
      [] parser = "TeamStatsParser" -> TeamDefaultFields
      [] OTHER -> <<>>

\* the positions of the rows of the table that have cells, in order
DataRowPositions(table) ==
    LET HasCells(i) == table.rows[i] # <<>>
    IN  SelectSeq([i \in 1..Len(table.rows) |-> i], HasCells)

\* C18: a table whose header section is absent or has no header cells is still
\* extracted by every parser that reads labels from the header section: each
\* data row yields a record, in order, labelled positionally by the parser's
\* default label list.
C18_HeaderlessTableExtracted ==
    (/\ pa_pc = "done"
     /\ pa_parser \in {"PlayerStatsParser", "TeamStatsParser", "ESPNStatsParser",
                       "ESPNRosterParser"}
     /\ pa_table.thead \in {<<"absent">>, <<>>}) =>
        /\ pa_src = DataRowPositions(pa_table)
        /\ \A k \in DOMAIN pa_data :
              \A i \in DOMAIN pa_table.rows[pa_src[k]] :
                  i <= Len(DefaultLabelsOf(pa_parser)) =>
                      /\ DefaultLabelsOf(pa_parser)[i] \in DOMAIN pa_data[k]
                      /\ pa_data[k][DefaultLabelsOf(pa_parser)[i]]
                            = get_text(pa_table.rows[pa_src[k]][i])

\* C19: in every record, the value under the i-th column label is the trimmed
\* text of the i-th cell of its row whenever the row has an i-th cell, the
\* label is absent when it has none, and cells beyond the labels add no field.
C19_PositionalZip ==
    pa_pc = "done" =>
        \A k \in DOMAIN pa_data :
            LET rec == pa_data[k]
                cells == StandingsCells(pa_table, pa_src[k])
                labels == LabelsOf(pa_parser, pa_table)
            IN  /\ \A i \in DOMAIN labels :
                      IF i <= Len(cells)
                      THEN labels[i] \in DOMAIN rec /\ rec[labels[i]] = get_text(cells[i])
                      ELSE labels[i] \notin DOMAIN rec
                /\ DOMAIN rec \subseteq {labels[i] : i \in DOMAIN labels} \cup FixedKeys

\* C20: every record returned by a parser has at least one field taken from a
\* cell whose text is not empty.
C20_NoUnpopulatedRecord ==
    pa_pc = "done" =>
        \A k \in DOMAIN pa_data :
            \E key \in DOMAIN pa_data[k] \ FixedKeys : pa_data[k][key] # <<>>

\* a title row of either conference
IsTitleRow(cells) == InRowText("west_title", cells) \/ InRowText("east_title", cells)

\* the section in force at row i: set by the most recent title row or row of a
\* listed team at or before i, "eastern" when there is none
RECURSIVE SectionAt(_, _)
SectionAt(table, i) ==
    IF i < 1 THEN "eastern"
    ELSE LET cells == table.rows[i] IN
         IF InRowText("west_title", cells) THEN "western"
         ELSE IF InRowText("east_title", cells) THEN "eastern"
         ELSE ConferenceByTeam(TeamNameOf(cells), SectionAt(table, i - 1))

\* the rows of a standings table that carry a team and its wins
StandingsDataRows(table) ==
    {i \in DOMAIN table.rows : Len(table.rows[i]) = 3 /\ ~IsTitleRow(table.rows[i])}

\* C27: StandingsParser tags every data row with the section in force at the
\* row, where every title row of either conference and every row of a listed
\* team switches the section; a title row yields no record and no data row is
\* lost.
C27_SectionInForce ==
    (pa_pc = "done" /\ pa_parser = "StandingsParser" /\ pa_table \in StandingsTables) =>
        /\ {pa_src[k] : k \in DOMAIN pa_src} = StandingsDataRows(pa_table)
        /\ \A k \in DOMAIN pa_data :
              pa_data[k]["conference"] = <<SectionAt(pa_table, pa_src[k])>>

(***************************************************************************)
(* Claims about the team statistics views.                                 *)
(***************************************************************************)
\* the records of one view, and the view a prefix stands for
ViewData(view) == parse_view(tv_pages[view], view)
ViewOfPrefix(prefix) == IF prefix = "OFF_" THEN "offensive" ELSE "defensive"

C5_NormalizeIdempotent ==
    nm_pc = "renormalized" => nm_rekey = nm_key

C5_Witness ==
    /\ nm_pc = "renormalized" /\ nm_variant = "dm"
    /\ nm_input = Str(TerrenceShannonJr)
    /\ nm_key # nm_input.s
    /\ nm_rekey = nm_key

\* C6: two identity strings that differ only by accent marks, letter case or
\* punctuation get the same key from the primary normalize_name.
C6_SpellingInsensitive ==
    sp_pc = "normalized" => sp_key_a = sp_key_b

C6_Witness ==
    /\ sp_pc = "normalized"
    /\ sp_a = JoseAngel /\ sp_b = jose_angel
    /\ sp_key_a = jose_angel /\ sp_key_b = jose_angel

\* a missing identity: None, a NaN cell, or the empty string
MissingIdentity(cell) == cell.tag \in {"None", "nan"} \/ cell = Str(<<>>)

\* C25: either normalize_name returns the empty key for a missing identity, so
\* a record without an identity never gets a key it could be matched under.
C25_MissingIdentityEmptyKey ==
    (nm_pc \in {"normalized", "renormalized"} /\ MissingIdentity(nm_input)) =>
        nm_key = <<>>

\* C26: for every input string, data_merger.normalize_name returns what
\* add_chinese_names.normalize_name returns for the input with its digits
\* removed, accented Latin letters included.
C26_DigitsOnlyDifference ==
    (nm_pc \in {"normalized", "renormalized"} /\ nm_variant = "dm"
        /\ nm_input.tag = "str") =>
        nm_key = normalize_name(Str(StripDigits(nm_input.s)))

WellFormedKey(k) ==
    /\ \A i \in DOMAIN k : k[i] \in AsciiLower \cup {" "}
    /\ k # <<>> => (k[1] # " " /\ k[Len(k)] # " ")
    /\ \A i \in 1..(Len(k) - 1) : ~(k[i] = " " /\ k[i + 1] = " ")

\* C7: a key returned by normalize_name holds only a-z and single spaces between
\* words: no leading, trailing or doubled space, no other character.
C7_KeyAlphabet ==
    nm_pc \in {"normalized", "renormalized"} => WellFormedKey(nm_key)

C7_Witness ==
    /\ nm_pc = "normalized" /\ nm_variant = "acn"
    /\ nm_input = Str(JoseAngel)
    /\ nm_key = jose_angel

=============================================================================
